---- MODULE Spec2Model ----
(***************************************************************************)
(* ShadowNet Nexus: the evidence vault (utils/evidence_vault.py), the      *)
(* deduplicating fast path (shadownet_realtime.py) and the emergency       *)
(* snapshot engine (core/emergency_snapshot.py) as state machines.         *)
(***************************************************************************)
EXTENDS Integers, Sequences, FiniteSets, TLC

VARIABLES
    now,                  \* datetime.now(), in clock ticks
    vaultOpen,            \* an EvidenceVault instance has been constructed
    chain_of_custody_file,\* the ledger file: [state, entries]
    files,                \* stored files of the vault: path -> content
    lastOp,               \* the last vault call and what it returned
    writers,              \* concurrent vault callers: where each one is in its call
    clock,                \* time.time(), in seconds
    recent_commands,      \* {command_key: last_time}
    detections,           \* the global detection counter
    incident_queue,       \* queue.Queue() of incident items
    prevEvent,            \* the on_suspicious_command call before the last one
    lastEvent,            \* the last on_suspicious_command call and what it did
    os_type,              \* platform.system().lower() of the snapshot engine
    capture_network,      \* the engine's capture_network flag
    snapshots_dir,        \* emergency_snapshots/: snapshot id -> (artifact -> state)
    snapshot_ids,         \* the snapshot ids allocated so far, in call order
    trigger,              \* the emergency_snapshot call in progress
    tasks,                \* the threads of that call: target -> [status, outcome]
    enabled,              \* the collector's enabled flag
    threat_patterns,      \* the collector's threat pattern table
    snapshots_taken,      \* the collector's snapshot counter
    lastMatch,            \* the last should_capture call and what it returned
    capture,              \* the capture_threat_context call in progress
    worker,               \* log_worker: where it is, the item it holds
    threat_log,           \* the incident records emitted, in order
    served,               \* the items the worker has dequeued, in order
    host,                 \* the main thread: running, joining the worker, exited
    monitor,              \* the process monitor: its class, its flag, what is installed
    monitor_threads,      \* the workers the monitor has started, in order
    processes,            \* the live processes: pid -> process
    delivered,            \* the callback calls made by the last worker step
    handlers              \* the on_suspicious_command calls in progress

vaultVars == <<now, vaultOpen, chain_of_custody_file, files, lastOp>>

raceVars == <<writers>>

dedupVars == <<clock, recent_commands, detections, incident_queue, prevEvent, lastEvent>>

snapVars == <<os_type, capture_network, snapshots_dir, snapshot_ids, trigger, tasks>>

collVars == <<enabled, threat_patterns, snapshots_taken, lastMatch, capture>>

workerVars == <<worker, threat_log, served, host>>

monVars == <<monitor, monitor_threads, processes, delivered, handlers>>

\* What the vault's one-caller-at-a-time operations leave alone.
notVault == <<raceVars, monVars, dedupVars, snapVars, collVars, workerVars>>

vars == <<vaultVars, raceVars, monVars, dedupVars, snapVars, collVars, workerVars>>

----------------------------------------------------------------------------
(* Bounds of the model *)

TicksPerSecond == 2
MaxTime == 2
MaxLedger == 2
MaxFiles == 2
NumWriters == 2
MaxClock == 60
MaxQueue == 2
MaxDetections == 3
MaxSnapshots == 2
MaxItems == 2

----------------------------------------------------------------------------
(* Inputs *)

IncidentIds == {"INC-1", "INC-2"}
EvidenceTypes == {"general"}
ArtifactTypes == {"file"}
ReportTypes == {"technical", "forensic"}
Contents == {"A", "B"}

\* Files outside the vault that a caller may name as source_file.
SourceFiles == [name : {"snap.zip"}, exists : BOOLEAN, content : {"A"}]

NoId == <<>>

----------------------------------------------------------------------------
(* Pure helpers *)

\* timestamp.strftime('%Y%m%d-%H%M%S'): the clock cut to whole seconds.
Strftime(t) == ToString(t \div TicksPerSecond)

\* f"EVD-{...}-{evidence_type}"
EvidenceId(t, evidence_type) == <<"EVD", Strftime(t), evidence_type>>

\* f"ART-{...}-{artifact_type}"
ArtifactId(t, artifact_type) == <<"ART", Strftime(t), artifact_type>>

\* f"REP-{...}"
ReportId(t) == <<"REP", Strftime(t)>>

\* incident_dir / f"{evidence_id}.json"
EvidenceFile(incident_id, evidence_id) ==
    [dir |-> <<"incidents", incident_id>>, name |-> evidence_id \o <<".json">>]

\* artifact_dir / f"{artifact_id}_{source_path.name}"
ArtifactFile(incident_id, artifact_id, source_name) ==
    [dir |-> <<"artifacts", incident_id>>, name |-> artifact_id \o <<"_", source_name>>]

\* vault_path / "reports" / f"{incident_id}_{report_type}_{...}.md"
ReportFile(incident_id, report_type, t) ==
    [dir |-> <<"reports">>,
     name |-> <<incident_id, "_", report_type, "_", Strftime(t), ".md">>]

\* SHA-256 of a file's content, taken to be collision free.
CalculateFileHash(content) == <<"sha256", content>>

WriteFile(fs, path, content) == (path :> content) @@ fs

RemoveFile(fs, path) == [q \in DOMAIN fs \ {path} |-> fs[q]]

\* _init_chain_of_custody without its exists() test: every construction rewrites [].
InitChainOfCustodyAlways(f) == [state |-> "json", entries |-> <<>>]

\* _init_chain_of_custody: the ledger is created empty only when it is absent.
InitChainOfCustody(f) ==
    IF f.state = "absent" THEN [state |-> "json", entries |-> <<>>] ELSE f

\* _add_custody_entry, run without interruption: read all, append, rewrite.
AddCustodyEntry(f, entry) ==
    [state |-> "json", entries |-> Append(f.entries, entry)]

\* get_chain_of_custody()
GetChainOfCustody == chain_of_custody_file.entries

\* entry.get('evidence_id') == evidence_id
HasEvidenceId(entry, id) ==
    "evidence_id" \in DOMAIN entry /\ entry.evidence_id = id

----------------------------------------------------------------------------
(* Vault operations, each call run to completion *)

\* EvidenceVault.__init__ over the vault directory, fresh or existing.
NewVault ==
    /\ chain_of_custody_file' = InitChainOfCustody(chain_of_custody_file)
    /\ vaultOpen' = TRUE
    /\ lastOp' = [op |-> "new_vault", id |-> NoId, ok |-> TRUE]
    /\ UNCHANGED <<now, files>>
    /\ UNCHANGED notVault

CanAppend ==
    /\ vaultOpen
    /\ chain_of_custody_file.state = "json"
    /\ Len(chain_of_custody_file.entries) < MaxLedger

\* The model stores at most MaxFiles files.
CanStore(path) == path \in DOMAIN files \/ Cardinality(DOMAIN files) < MaxFiles

EvidenceEntry(t, incident_id, evidence_type, evidence_data) ==
    [evidence_id   |-> EvidenceId(t, evidence_type),
     incident_id   |-> incident_id,
     evidence_type |-> evidence_type,
     timestamp     |-> t,
     file_path     |-> EvidenceFile(incident_id, EvidenceId(t, evidence_type)),
     hash_sha256   |-> CalculateFileHash(evidence_data),
     action        |-> "evidence_preserved"]

PreserveEvidence(incident_id, evidence_data, evidence_type) ==
    LET evidence_id == EvidenceId(now, evidence_type)
        evidence_file == EvidenceFile(incident_id, evidence_id)
    IN  /\ CanAppend
        /\ CanStore(evidence_file)
        /\ files' = WriteFile(files, evidence_file, evidence_data)
        /\ chain_of_custody_file' =
               AddCustodyEntry(chain_of_custody_file,
                   EvidenceEntry(now, incident_id, evidence_type, files'[evidence_file]))
        /\ lastOp' = [op |-> "preserve_evidence", id |-> evidence_id, ok |-> TRUE]
        /\ UNCHANGED <<now, vaultOpen>>
        /\ UNCHANGED notVault

ArtifactEntry(t, incident_id, artifact_type, source, stored) ==
    [artifact_id    |-> ArtifactId(t, artifact_type),
     incident_id    |-> incident_id,
     artifact_type  |-> artifact_type,
     timestamp      |-> t,
     source_path    |-> source.name,
     preserved_path |-> ArtifactFile(incident_id, ArtifactId(t, artifact_type), source.name),
     hash_sha256    |-> CalculateFileHash(stored),
     action         |-> "artifact_preserved"]

PreserveFileArtifact(incident_id, source, artifact_type) ==
    LET artifact_id == ArtifactId(now, artifact_type)
        dest_file == ArtifactFile(incident_id, artifact_id, source.name)
    IN  /\ CanAppend
        /\ CanStore(dest_file)
        /\ IF source.exists
           THEN /\ files' = WriteFile(files, dest_file, source.content)
                /\ chain_of_custody_file' =
                       AddCustodyEntry(chain_of_custody_file,
                           ArtifactEntry(now, incident_id, artifact_type, source,
                                         files'[dest_file]))
                /\ lastOp' = [op |-> "preserve_file_artifact", id |-> artifact_id,
                              ok |-> TRUE]
           ELSE \* shutil.copy2 raises; the except branch returns ""
                /\ lastOp' = [op |-> "preserve_file_artifact", id |-> NoId, ok |-> FALSE]
                /\ UNCHANGED <<files, chain_of_custody_file>>
        /\ UNCHANGED <<now, vaultOpen>>
        /\ UNCHANGED notVault

ReportEntry(t, incident_id, report_type, stored) ==
    [evidence_id   |-> ReportId(t),
     incident_id   |-> incident_id,
     evidence_type |-> report_type,
     timestamp     |-> t,
     file_path     |-> ReportFile(incident_id, report_type, t),
     hash_sha256   |-> CalculateFileHash(stored),
     action        |-> "report_generated"]

\* Whether save_report records the report in the ledger.
ReportIsRecorded(report_type) == report_type = "forensic"

SaveReport(incident_id, report_content, report_type) ==
    LET report_file == ReportFile(incident_id, report_type, now)
    IN  /\ CanAppend
        /\ CanStore(report_file)
        /\ files' = WriteFile(files, report_file, report_content)
        /\ chain_of_custody_file' =
               IF ReportIsRecorded(report_type)
               THEN AddCustodyEntry(chain_of_custody_file,
                        ReportEntry(now, incident_id, report_type, files'[report_file]))
               ELSE chain_of_custody_file
        /\ lastOp' = [op |-> "save_report", id |-> <<report_type>>, ok |-> TRUE]
        /\ UNCHANGED <<now, vaultOpen>>
        /\ UNCHANGED notVault

\* entry.get('evidence_id') or entry.get('artifact_id'): the id an entry carries.
EntryId(entry) ==
    IF "evidence_id" \in DOMAIN entry THEN entry.evidence_id ELSE entry.artifact_id

\* The ids a caller may ask about: every id the ledger carries, and one never issued.
QueryIds ==
    {EntryId(GetChainOfCustody[i]) : i \in 1..Len(GetChainOfCustody)}
    \cup {<<"EVD", "never", "general">>}

\* The files incident_dir / f"{evidence_id}.json" that exist, over all incident
\* directories of the vault.
EvidenceFilesOf(fs, evidence_id) ==
    {p \in DOMAIN fs : p.dir[1] = "incidents" /\ p.name = evidence_id \o <<".json">>}

\* The ledger positions whose entry carries evidence_id.
CustodyMatches(custody, evidence_id) ==
    {i \in 1..Len(custody) : HasEvidenceId(custody[i], evidence_id)}

Min(S) == CHOOSE x \in S : \A y \in S : x <= y

\* verify_evidence_integrity: the first incident directory (in iterdir order, which
\* the file system chooses) holding the file decides, against the first ledger entry
\* of that id; no file or no entry gives False.
VerifyOutcomes(fs, custody, evidence_id) ==
    IF EvidenceFilesOf(fs, evidence_id) = {} \/ CustodyMatches(custody, evidence_id) = {}
    THEN {FALSE}
    ELSE {CalculateFileHash(fs[p]) =
              custody[Min(CustodyMatches(custody, evidence_id))].hash_sha256
          : p \in EvidenceFilesOf(fs, evidence_id)}

VerifyEvidenceIntegrity(evidence_id) ==
    /\ vaultOpen
    /\ chain_of_custody_file.state = "json"
    /\ \E result \in VerifyOutcomes(files, GetChainOfCustody, evidence_id) :
           lastOp' = [op |-> "verify_evidence_integrity", id |-> evidence_id,
                      ok |-> result]
    /\ UNCHANGED <<now, vaultOpen, chain_of_custody_file, files>>
    /\ UNCHANGED notVault

\* get_evidence, get_incident_evidence, get_chain_of_custody, get_vault_stats:
\* they open files for reading only.
Readers == {"get_evidence", "get_incident_evidence", "get_chain_of_custody",
            "get_vault_stats"}

Read(reader) ==
    /\ vaultOpen
    /\ chain_of_custody_file.state = "json"
    /\ lastOp' = [op |-> reader, id |-> NoId, ok |-> TRUE]
    /\ UNCHANGED <<now, vaultOpen, chain_of_custody_file, files>>
    /\ UNCHANGED notVault

----------------------------------------------------------------------------
(* The environment of the vault *)

\* The stored copy at path is overwritten from outside the vault.
ModifyStoredCopy(path, content) ==
    /\ path \in DOMAIN files
    /\ files[path] # content
    /\ files' = WriteFile(files, path, content)
    /\ lastOp' = [op |-> "modify_stored_copy", id |-> NoId, ok |-> TRUE]
    /\ UNCHANGED <<now, vaultOpen, chain_of_custody_file>>
    /\ UNCHANGED notVault

\* The stored copy at path is deleted from outside the vault.
DeleteStoredCopy(path) ==
    /\ path \in DOMAIN files
    /\ files' = RemoveFile(files, path)
    /\ lastOp' = [op |-> "delete_stored_copy", id |-> NoId, ok |-> TRUE]
    /\ UNCHANGED <<now, vaultOpen, chain_of_custody_file>>
    /\ UNCHANGED notVault

\* Time passes.
Tick ==
    /\ now < MaxTime
    /\ now' = now + 1
    /\ UNCHANGED <<vaultOpen, chain_of_custody_file, files, lastOp>>
    /\ UNCHANGED notVault

----------------------------------------------------------------------------
(* The vault used by one caller at a time *)

InitVault ==
    /\ now = 0
    /\ vaultOpen = FALSE
    /\ chain_of_custody_file = [state |-> "absent", entries |-> <<>>]
    /\ files = <<>>
    /\ lastOp = [op |-> "none", id |-> NoId, ok |-> TRUE]

InitRace ==
    writers = [w \in 1..NumWriters |->
                  [pc |-> "idle", op |-> "none", entry |-> <<>>, custody |-> <<>>]]

NoEvent == [valid |-> FALSE, name |-> <<>>, command |-> <<>>, at |-> 0,
            enqueued |-> 0, counted |-> 0, failed |-> FALSE, repeat |-> FALSE]

InitDedup ==
    /\ clock = 0
    /\ recent_commands = <<>>
    /\ detections = 0
    /\ incident_queue = <<>>
    /\ prevEvent = NoEvent
    /\ lastEvent = NoEvent

TaskTargets == {"_snapshot_event_logs", "_snapshot_vss_state",
                "_snapshot_filesystem_metadata", "_snapshot_process_state",
                "_snapshot_network_state"}

NoTasks == [t \in TaskTargets |-> [status |-> "none", outcome |-> "none"]]

\* EmergencySnapshotEngine.__init__: the platform and the flag are fixed here.
InitSnapshot ==
    /\ os_type \in {"windows", "linux", "darwin"}
    /\ capture_network \in BOOLEAN
    /\ snapshots_dir = <<>>
    /\ snapshot_ids = <<>>
    /\ trigger = [pc |-> "idle", snapshot_id |-> <<>>, threat_type |-> "none",
                  threads |-> <<>>, next |-> 1]
    /\ tasks = NoTasks

NoMatch == [matched |-> FALSE]

\* os_detector.is_windows / is_linux / is_mac: the platform of the host.
IsWindows(os) == os = "windows"

IsLinux(os) == os = "linux"

IsMac(os) == os = "darwin"

WindowsPatterns ==
    <<
     [pattern |-> <<"w", "e", "v", "t", "u", "t", "i", "l">>,
      threat_type |-> "log_clearing", severity |-> "CRITICAL",
      description |-> <<"Windows Event Log manipulation">>],
     [pattern |-> <<"v", "s", "s", "a", "d", "m", "i", "n", " ", "d", "e", "l", "e", "t", "e">>,
      threat_type |-> "vss_deletion", severity |-> "CRITICAL",
      description |-> <<"Volume Shadow Copy deletion">>],
     [pattern |-> <<"c", "i", "p", "h", "e", "r", " ", "/", "w">>,
      threat_type |-> "file_wiping", severity |-> "HIGH",
      description |-> <<"Secure file deletion">>],
     [pattern |-> <<"C", "l", "e", "a", "r", "-", "E", "v", "e", "n", "t", "L", "o", "g">>,
      threat_type |-> "log_clearing", severity |-> "CRITICAL",
      description |-> <<"PowerShell event log clearing">>],
     [pattern |-> <<"b", "c", "d", "e", "d", "i", "t">>,
      threat_type |-> "boot_config", severity |-> "HIGH",
      description |-> <<"Boot configuration modification">>]>>

LinuxPatterns ==
    <<
     [pattern |-> <<"s", "h", "r", "e", "d">>,
      threat_type |-> "file_wiping", severity |-> "HIGH",
      description |-> <<"Secure file deletion">>],
     [pattern |-> <<"h", "i", "s", "t", "o", "r", "y", " ", "-", "c">>,
      threat_type |-> "log_clearing", severity |-> "MEDIUM",
      description |-> <<"Command history clearing">>],
     [pattern |-> <<"r", "m", " ", "-", "r", "f", " ", "/", "v", "a", "r", "/", "l", "o", "g">>,
      threat_type |-> "log_clearing", severity |-> "CRITICAL",
      description |-> <<"System log deletion">>],
     [pattern |-> <<"j", "o", "u", "r", "n", "a", "l", "c", "t", "l", " ", "-", "-", "v", "a", "c", "u", "u", "m">>,
      threat_type |-> "log_clearing", severity |-> "HIGH",
      description |-> <<"Journal log cleanup">>],
     [pattern |-> <<"a", "u", "d", "i", "t", "c", "t", "l", " ", "-", "D">>,
      threat_type |-> "log_clearing", severity |-> "CRITICAL",
      description |-> <<"Audit log deletion">>]>>

MacPatterns ==
    <<
     [pattern |-> <<"s", "r", "m">>,
      threat_type |-> "file_wiping", severity |-> "HIGH",
      description |-> <<"Secure file deletion">>],
     [pattern |-> <<"l", "o", "g", " ", "e", "r", "a", "s", "e">>,
      threat_type |-> "log_clearing", severity |-> "CRITICAL",
      description |-> <<"System log erasure">>],
     [pattern |-> <<"r", "m", " ", "-", "r", "f", " ", "/", "v", "a", "r", "/", "l", "o", "g">>,
      threat_type |-> "log_clearing", severity |-> "CRITICAL",
      description |-> <<"System log deletion">>]>>

\* _build_threat_patterns: the table of the host platform, in insertion order.
BuildThreatPatterns(os) ==
    (IF IsWindows(os) THEN WindowsPatterns ELSE <<>>)
    \o (IF IsLinux(os) THEN LinuxPatterns ELSE <<>>)
    \o (IF IsMac(os) THEN MacPatterns ELSE <<>>)

\* ProactiveEvidenceCollector(enabled=True), as shadownet_realtime.py constructs it.
InitCollector ==
    /\ enabled = TRUE
    /\ threat_patterns = BuildThreatPatterns(os_type)
    /\ snapshots_taken = 0
    /\ lastMatch = [valid |-> FALSE]
    /\ capture = [pc |-> "idle"]

NA == <<"N/A">>

\* log_worker blocked in incident_queue.get(), holding no item.
Waiting == [pc |-> "get", item |-> [none |-> TRUE], incident_id |-> <<>>, snapshot_id |-> NA,
            severity |-> "none",
            failed |-> {}, archived_before |-> 0, logged_before |-> 0]

\* The worker thread is started at import, the queue being empty.
InitWorker ==
    /\ worker = Waiting
    /\ threat_log = <<>>
    /\ served = <<>>
    /\ host = "running"

\* A monitor as its constructor leaves it: BaseProcessMonitor.__init__ and
\* WMIProcessMonitor.__init__.  HAS_WMI and HAS_PSUTIL are fixed at import.
NewMonitor(class, has_wmi, has_psutil) ==
    [class |-> class, monitoring |-> FALSE, HAS_WMI |-> has_wmi, HAS_PSUTIL |-> has_psutil,
     processes_detected |-> 0, suspicious_detected |-> 0, command_history |-> 0,
     call |-> [op |-> "none", seq |-> 0, running |-> FALSE]]

\* No process yet, none spawned; born tells the how-manieth a live process is.
NoProcesses == [live |-> <<>>, born |-> <<>>, spawned |-> 0]

\* The two workers of one monitor, neither inside on_suspicious_command.
HandlerThreads == {"WMI", "Polling"}

IdleHandlers == [h \in HandlerThreads |-> [pc |-> "idle"]]

\* The monitor of shadownet_realtime.py on Windows, not yet started.
InitMonitor ==
    /\ monitor = NewMonitor("WindowsProcessMonitor", TRUE, TRUE)
    /\ monitor_threads = <<>>
    /\ processes = NoProcesses
    /\ delivered = {}
    /\ handlers = IdleHandlers

Init ==
    /\ InitVault /\ InitRace /\ InitDedup /\ InitSnapshot /\ InitCollector /\ InitWorker
    /\ InitMonitor

NextVault ==
    \/ NewVault
    \/ \E i \in IncidentIds, d \in Contents, ty \in EvidenceTypes :
           PreserveEvidence(i, d, ty)
    \/ \E s \in SourceFiles, ty \in ArtifactTypes :
           PreserveFileArtifact("INC-1", s, ty)
    \/ \E ty \in ReportTypes :
           SaveReport("INC-1", "A", ty)
    \/ \E id \in QueryIds : VerifyEvidenceIntegrity(id)
    \/ \E r \in Readers : Read(r)
    \/ Tick

SpecVault == Init /\ [][NextVault]_vars

----------------------------------------------------------------------------
(* The vault and an environment that alters stored copies *)

NextVaultEnv ==
    \/ NextVault
    \/ \E p \in DOMAIN files, c \in Contents : ModifyStoredCopy(p, c)
    \/ \E p \in DOMAIN files : DeleteStoredCopy(p)

SpecVaultEnv == Init /\ [][NextVaultEnv]_vars

----------------------------------------------------------------------------
(* Properties of the vault *)

LedgerEntries == chain_of_custody_file.entries

\* The file an entry says it stored.
StoredPath(entry) ==
    IF "file_path" \in DOMAIN entry THEN entry.file_path ELSE entry.preserved_path

\* The ledger positions whose entry carries id, as evidence_id or artifact_id.
EntriesOf(id) == {i \in 1..Len(LedgerEntries) : EntryId(LedgerEntries[i]) = id}

PreservationOps == {"preserve_evidence", "preserve_file_artifact", "save_report"}

C2_EachPreservationAppendsOne ==
    [][(/\ lastOp'.op \in PreservationOps
        /\ lastOp'.ok
        /\ <<chain_of_custody_file, files, lastOp>>' # <<chain_of_custody_file, files, lastOp>>)
       => Len(LedgerEntries') = Len(LedgerEntries) + 1]_vars

\* C3: verify_evidence_integrity called right after a successful
\* preserve_file_artifact, with the id it returned, returns true.
C3_VerifyAfterPreserveArtifact ==
    [][(/\ lastOp.op = "preserve_file_artifact"
        /\ lastOp.ok
        /\ lastOp'.op = "verify_evidence_integrity"
        /\ lastOp'.id = lastOp.id)
       => lastOp'.ok]_vars

\* C4: verification fails closed: it returns true only if the id has a ledger entry
\* and the stored copy of every preservation that returned this id still exists with
\* the SHA-256 its entry records (not modified, not deleted).
C4_VerifyFailsClosed ==
    (lastOp.op = "verify_evidence_integrity" /\ lastOp.ok)
    => /\ EntriesOf(lastOp.id) # {}
       /\ \A i \in EntriesOf(lastOp.id) :
              /\ StoredPath(LedgerEntries[i]) \in DOMAIN files
              /\ CalculateFileHash(files[StoredPath(LedgerEntries[i])])
                     = LedgerEntries[i].hash_sha256

\* C5: every id returned by preserve_evidence or preserve_file_artifact has exactly
\* one ledger entry carrying it, present when the call returns.
C5_OneEntryPerReturnedId ==
    (lastOp.op \in {"preserve_evidence", "preserve_file_artifact"} /\ lastOp.ok)
    => Cardinality(EntriesOf(lastOp.id)) = 1

----------------------------------------------------------------------------
(* Concurrent callers of the vault.  Each caller constructs its own           *)
(* EvidenceVault over the shared directory, as generate_incident_report does, *)
(* and runs one preservation call; the ledger file is read and rewritten in   *)
(* separate steps, as _add_custody_entry does, and nothing in the code locks  *)
(* it.                                                                        *)

Writers == 1..NumWriters

RaceOps == {"preserve_evidence", "preserve_file_artifact", "save_report"}

\* Each caller works on an incident of its own.
IncidentOfWriter(w) == <<"INC", ToString(w)>>

RaceSource == [name |-> "snap.zip", exists |-> TRUE, content |-> "A"]

\* The file the call writes before it touches the ledger.
RaceFile(w, op, t) ==
    CASE op = "preserve_evidence" ->
             EvidenceFile(IncidentOfWriter(w), EvidenceId(t, "general"))
      [] op = "preserve_file_artifact" ->
             ArtifactFile(IncidentOfWriter(w), ArtifactId(t, "file"), RaceSource.name)
      [] op = "save_report" -> ReportFile(IncidentOfWriter(w), "forensic", t)

\* The custody entry the call builds.
RaceEntry(w, op, t, stored) ==
    CASE op = "preserve_evidence" ->
             EvidenceEntry(t, IncidentOfWriter(w), "general", stored)
      [] op = "preserve_file_artifact" ->
             ArtifactEntry(t, IncidentOfWriter(w), "file", RaceSource, stored)
      [] op = "save_report" -> ReportEntry(t, IncidentOfWriter(w), "forensic", stored)

\* __init__: mkdirs, then _init_chain_of_custody tests exists().
Construct(w) ==
    /\ writers[w].pc = "idle"
    /\ writers' = [writers EXCEPT
           ![w].pc = IF chain_of_custody_file.state = "absent" THEN "init" ELSE "ready"]
    /\ UNCHANGED <<vaultVars, dedupVars, snapVars, collVars, workerVars, monVars>>

\* _init_chain_of_custody, after exists() was false: open(..., 'w'), dump [].
InitWrite(w) ==
    /\ writers[w].pc = "init"
    /\ chain_of_custody_file' = [state |-> "json", entries |-> <<>>]
    /\ writers' = [writers EXCEPT ![w].pc = "ready"]
    /\ UNCHANGED <<now, vaultOpen, files, lastOp, dedupVars, snapVars, collVars, workerVars, monVars>>

\* The call up to its _add_custody_entry: timestamp, stored file, hash, entry.
Begin(w, op, content) ==
    /\ writers[w].pc = "ready"
    /\ files' = WriteFile(files, RaceFile(w, op, now), content)
    /\ writers' = [writers EXCEPT
           ![w].pc = "read",
           ![w].op = op,
           ![w].entry = RaceEntry(w, op, now, files'[RaceFile(w, op, now)])]
    /\ UNCHANGED <<now, vaultOpen, chain_of_custody_file, lastOp, dedupVars, snapVars, collVars, workerVars, monVars>>

\* What a call does with an exception of _add_custody_entry: preserve_file_artifact
\* catches it and returns "", the other two let it out.
OnLedgerError(op) == IF op = "preserve_file_artifact" THEN "returned_empty" ELSE "raised"

\* _add_custody_entry, lines 237-238: open(..., 'r'); json.load.  A file that
\* another caller has opened for writing and not yet filled is no JSON.
ReadLedger(w) ==
    /\ writers[w].pc = "read"
    /\ writers' = [writers EXCEPT
           ![w].pc = IF chain_of_custody_file.state = "json"
                     THEN "append" ELSE OnLedgerError(writers[w].op),
           ![w].custody = IF chain_of_custody_file.state = "json"
                          THEN chain_of_custody_file.entries ELSE <<>>]
    /\ UNCHANGED <<vaultVars, dedupVars, snapVars, collVars, workerVars, monVars>>

\* _add_custody_entry, lines 240-242: custody.append(entry); open(..., 'w'),
\* which empties the file.
TruncateLedger(w) ==
    /\ writers[w].pc = "append"
    /\ chain_of_custody_file' = [state |-> "empty", entries |-> <<>>]
    /\ writers' = [writers EXCEPT
           ![w].pc = "dump",
           ![w].custody = Append(writers[w].custody, writers[w].entry)]
    /\ UNCHANGED <<now, vaultOpen, files, lastOp, dedupVars, snapVars, collVars, workerVars, monVars>>

\* _add_custody_entry, line 243: json.dump(custody, f), then the call returns.
DumpLedger(w) ==
    /\ writers[w].pc = "dump"
    /\ chain_of_custody_file' = [state |-> "json", entries |-> writers[w].custody]
    /\ writers' = [writers EXCEPT ![w].pc = "returned"]
    /\ UNCHANGED <<now, vaultOpen, files, lastOp, dedupVars, snapVars, collVars, workerVars, monVars>>

NextRace ==
    \/ \E w \in Writers : Construct(w)
    \/ \E w \in Writers : InitWrite(w)
    \/ \E w \in Writers, op \in RaceOps, c \in Contents : Begin(w, op, c)
    \/ \E w \in Writers : ReadLedger(w)
    \/ \E w \in Writers : TruncateLedger(w)
    \/ \E w \in Writers : DumpLedger(w)
    \/ Tick

SpecRace == Init /\ [][NextRace]_vars

\* C6: ledger updates of concurrent preservation calls are serialized: once the
\* calls have all returned, under every interleaving, the entry of each of them is
\* in the ledger.
C6_ConcurrentEntriesKept ==
    (\A w \in Writers : writers[w].pc = "returned") =>
        /\ chain_of_custody_file.state = "json"
        /\ \A w \in Writers :
               \E i \in 1..Len(LedgerEntries) : LedgerEntries[i] = writers[w].entry

----------------------------------------------------------------------------
(* The fast path: on_suspicious_command (shadownet_realtime.py).  Names and *)
(* commands are sequences of words.                                         *)

DedupWindow == 30

\* config['shadownet']['monitoring']['suspicious_keywords']
keywords == {"wevtutil", "vssadmin"}

ForensicTools == {"wevtutil.exe", "vssadmin.exe", "cipher.exe"}

ProcessNames == {<<"wevtutil.exe">>, <<"cmd.exe">>}

Commands == {<<"WEVTUTIL", "cl">>, <<"dir">>}

\* The answers of ai_analyzer.analyze_command: a threat, benign, a returned result
\* that is an error marker or says nothing of is_anti_forensics ("unknown"), or an
\* exception ("error").
AiVerdicts == {"threat", "benign", "unknown", "error"}

\* str.lower()
Lower(word) ==
    CASE word = "WEVTUTIL" -> "wevtutil"
      [] word = "VSSADMIN" -> "vssadmin"
      [] OTHER -> word

\* needle.lower() in text.lower(), word by word
ContainsWord(text, needle) == \E i \in 1..Len(text) : Lower(text[i]) = Lower(needle)

\* f"{process_info.get('name')}:{command}"
CmdKey(name, command) == name \o <<":">> \o command

\* The repeat test of line 192 with no window: a key once seen is a repeat for ever.
IsRepeatForEver(recent, cmd_key, t) == cmd_key \in DOMAIN recent

\* cmd_key in recent_commands and (now - recent_commands[cmd_key]) < 30
IsRepeat(recent, cmd_key, t) ==
    cmd_key \in DOMAIN recent /\ (t - recent[cmd_key]) < DedupWindow

\* [k for k in keywords if k.lower() in command.lower()]
MatchedKeywords(command) == {k \in keywords : ContainsWord(command, k)}

\* any(tool in proc_name for tool in ['wevtutil.exe', 'vssadmin.exe', 'cipher.exe'])
IsForensicTool(name) == \E tool \in ForensicTools : ContainsWord(name, tool)

\* The item put on the queue, after the analysis or after its exception.
IncidentItem(name, command, verdict) ==
    [command          |-> command,
     matched_keywords |-> MatchedKeywords(command),
     ai_res           |-> IF verdict = "error" THEN "forced" ELSE verdict,
     process_info     |-> name,
     is_critical      |-> MatchedKeywords(command) # {} \/ IsForensicTool(name)]

\* An enqueue decided by the verdict alone.
EnqueuedOnThreatOnly(name, command, verdict) ==
    IF verdict = "threat" THEN <<IncidentItem(name, command, verdict)>> ELSE <<>>

\* What on_suspicious_command puts on the queue once the event has passed the
\* deduplication and the keyword test: lines 217-240.
Enqueued(name, command, verdict) ==
    LET is_critical == MatchedKeywords(command) # {} \/ IsForensicTool(name)
    IN  IF verdict = "error"
        THEN IF is_critical THEN <<IncidentItem(name, command, verdict)>> ELSE <<>>
        ELSE IF verdict = "threat" \/ is_critical
             THEN <<IncidentItem(name, command, verdict)>> ELSE <<>>

\* The reasoning collaborator raised, or returned an error or unknown verdict.
ReasoningFailed(verdict) == verdict \in {"error", "unknown"}

OnSuspiciousCommand(name, command, verdict) ==
    LET cmd_key == CmdKey(name, command)
        repeat == IsRepeat(recent_commands, cmd_key, clock)
        flagged == MatchedKeywords(command) # {} \/ IsForensicTool(name)
    IN  /\ Len(incident_queue) < MaxQueue
        /\ detections < MaxDetections
        /\ recent_commands' =
               IF repeat THEN recent_commands
               ELSE (cmd_key :> clock) @@ recent_commands
        /\ detections' = IF repeat \/ flagged THEN detections + 1 ELSE detections
        /\ incident_queue' =
               IF repeat \/ ~flagged THEN incident_queue
               ELSE incident_queue \o Enqueued(name, command, verdict)
        /\ prevEvent' = lastEvent
        /\ lastEvent' = [valid |-> TRUE, name |-> name, command |-> command,
                         at |-> clock,
                         enqueued |-> Len(incident_queue') - Len(incident_queue),
                         counted |-> detections' - detections,
                         failed |-> ReasoningFailed(verdict), repeat |-> repeat]
        /\ UNCHANGED <<clock, vaultVars, raceVars, monVars, snapVars, collVars, workerVars>>

ClockSteps == {29, 30, 31}

\* Time passes between events.
Advance(d) ==
    /\ clock + d <= MaxClock
    /\ clock' = clock + d
    /\ UNCHANGED <<recent_commands, detections, incident_queue, prevEvent, lastEvent>>
    /\ UNCHANGED <<vaultVars, raceVars, monVars, snapVars, collVars, workerVars>>

NextDedup ==
    \/ \E n \in ProcessNames, c \in Commands, v \in AiVerdicts :
           OnSuspiciousCommand(n, c, v)
    \/ \E d \in ClockSteps : Advance(d)

SpecDedup == Init /\ [][NextDedup]_vars

\* The event carries a configured keyword in its command or a forensic tool name.
Flagged(event) ==
    \/ \E k \in keywords : ContainsWord(event.command, k)
    \/ \E tool \in ForensicTools : ContainsWord(event.name, tool)

\* Two on_suspicious_command calls in a row with the same name and command text.
IdenticalPair ==
    /\ prevEvent.valid
    /\ lastEvent.valid
    /\ prevEvent.name = lastEvent.name
    /\ prevEvent.command = lastEvent.command
    /\ Flagged(lastEvent)

\* C7: of two identical events less than 30 s apart, the first having triggered a
\* capture, the repeat triggers none and is only counted as a detection (one enqueue
\* for the pair); the same two events 31 s or more apart trigger two captures.  The
\* first event of a run triggers one.
C7_DedupWindow ==
    /\ (lastEvent.valid /\ ~prevEvent.valid /\ Flagged(lastEvent))
           => lastEvent.enqueued = 1
    /\ (IdenticalPair /\ prevEvent.enqueued = 1 /\ lastEvent.at - prevEvent.at < 30)
           => (lastEvent.enqueued = 0 /\ lastEvent.counted = 1)
    /\ (IdenticalPair /\ prevEvent.enqueued = 1 /\ lastEvent.at - prevEvent.at >= 31)
           => lastEvent.enqueued = 1

\* Two identical events 29 s apart: one enqueue, the repeat counted.
C7_Witness ==
    /\ IdenticalPair
    /\ prevEvent.enqueued = 1
    /\ lastEvent.at - prevEvent.at = 29
    /\ lastEvent.enqueued = 0
    /\ lastEvent.counted = 1
    /\ Len(incident_queue) = 1

\* Two identical events 31 s apart: two enqueues.
C7_WitnessApart ==
    /\ IdenticalPair
    /\ lastEvent.at - prevEvent.at = 31
    /\ prevEvent.enqueued = 1
    /\ lastEvent.enqueued = 1

\* C21: an event that passed the deduplication and carries a keyword or a forensic
\* tool name is enqueued even when the reasoning collaborator raises or returns an
\* error or unknown verdict: exactly one incident item is put on the queue.
C21_ReasoningFailureStillEnqueues ==
    (lastEvent.valid /\ ~lastEvent.repeat /\ Flagged(lastEvent) /\ lastEvent.failed)
        => /\ lastEvent.enqueued = 1
           /\ incident_queue[Len(incident_queue)].command = lastEvent.command

\* The analysis raised for a flagged first event and the forced item is on the queue.
C21_Witness ==
    /\ lastEvent.valid
    /\ ~lastEvent.repeat
    /\ Flagged(lastEvent)
    /\ lastEvent.failed
    /\ lastEvent.enqueued = 1
    /\ incident_queue[Len(incident_queue)].ai_res = "forced"

\* The analysis returned an unknown verdict for a flagged first event: enqueued too.
C21_WitnessUnknown ==
    /\ lastEvent.valid
    /\ ~lastEvent.repeat
    /\ Flagged(lastEvent)
    /\ lastEvent.failed
    /\ lastEvent.enqueued = 1
    /\ incident_queue[Len(incident_queue)].ai_res = "unknown"

----------------------------------------------------------------------------
(* The emergency snapshot engine (core/emergency_snapshot.py) *)

ThreatTypes == {"log_clearing", "vss_deletion", "file_wiping", "boot_config"}

\* f"SNAP-{datetime.now().strftime('%Y%m%d-%H%M%S')}"
SnapshotId(t) == <<"SNAP", Strftime(t)>>

\* The threads list with the log task appended only under network capture.
ThreadsLogsUnderNetwork(threat_type, network) ==
    (IF threat_type = "vss_deletion" THEN <<"_snapshot_vss_state">> ELSE <<>>)
    \o (IF threat_type = "file_wiping" THEN <<"_snapshot_filesystem_metadata">> ELSE <<>>)
    \o <<"_snapshot_process_state">>
    \o (IF network
        THEN (IF threat_type = "log_clearing" THEN <<"_snapshot_event_logs">> ELSE <<>>)
             \o <<"_snapshot_network_state">>
        ELSE <<>>)

\* The threads list of emergency_snapshot, in the order it is built.
Threads(threat_type, network) ==
    (IF threat_type = "log_clearing" THEN <<"_snapshot_event_logs">> ELSE <<>>)
    \o (IF threat_type = "vss_deletion" THEN <<"_snapshot_vss_state">> ELSE <<>>)
    \o (IF threat_type = "file_wiping" THEN <<"_snapshot_filesystem_metadata">> ELSE <<>>)
    \o <<"_snapshot_process_state">>
    \o (IF network THEN <<"_snapshot_network_state">> ELSE <<>>)

\* _snapshot_vss_state without its platform test: vssadmin's output is written
\* whatever the platform.
ArtifactOfAnyPlatform(target, os) ==
    CASE target = "_snapshot_event_logs" ->
             IF os = "windows" THEN {"event_logs"} ELSE {"system_logs"}
      [] target = "_snapshot_vss_state" -> {"vss_state.txt"}
      [] target = "_snapshot_filesystem_metadata" -> {"filesystem_metadata.txt"}
      [] target = "_snapshot_process_state" -> {"process_state.json"}
      [] target = "_snapshot_network_state" -> {"network_state.json"}

\* The artifact a capture task writes into the snapshot directory; none for the
\* volume-state task off Windows, which returns at once.
ArtifactOf(target, os) ==
    CASE target = "_snapshot_event_logs" ->
             IF os = "windows" THEN {"event_logs"} ELSE {"system_logs"}
      [] target = "_snapshot_vss_state" ->
             IF os = "windows" THEN {"vss_state.txt"} ELSE {}
      [] target = "_snapshot_filesystem_metadata" -> {"filesystem_metadata.txt"}
      [] target = "_snapshot_process_state" -> {"process_state.json"}
      [] target = "_snapshot_network_state" -> {"network_state.json"}

\* How a capture task may end: it captures; it raises before its artifact is opened;
\* an external tool it shells out to exceeds its timeout; it raises while writing.
Outcomes(target, os) ==
    IF target = "_snapshot_vss_state" /\ os # "windows"
    THEN {"ok"}
    ELSE {"ok", "exception", "write_error"}
         \cup (IF \/ target = "_snapshot_filesystem_metadata"
                  \/ target = "_snapshot_vss_state"
                  \/ (target = "_snapshot_event_logs" /\ os \in {"windows", "darwin"})
               THEN {"timeout"} ELSE {})

\* What a task that ends with outcome leaves of its own artifact: complete, partial
\* (with the notice, for the logs) or nothing.
Leaves(target, os, outcome) ==
    CASE outcome = "ok" -> [a \in ArtifactOf(target, os) |-> "complete"]
      [] outcome = "exception" -> <<>>
      [] outcome = "write_error" -> [a \in ArtifactOf(target, os) |-> "partial"]
      [] outcome = "timeout" ->
             IF target = "_snapshot_event_logs"
             THEN [a \in ArtifactOf(target, os) |-> "partial"]
             ELSE <<>>

\* A failing task that removes the snapshot directory's content on its way out.
AfterTaskCleansUp(dir, target, os, outcome) ==
    IF outcome = "ok" THEN Leaves(target, os, outcome) @@ dir ELSE <<>>

\* The snapshot directory after a task has ended: the task's except branch prints
\* and touches nothing, so only the task's own artifact changes.
AfterTask(dir, target, os, outcome) == Leaves(target, os, outcome) @@ dir

\* thread.join() without a wait.
CanJoinAny(status) == TRUE

\* thread.join() returns once the thread has ended.
CanJoin(status) == status = "finished"

\* emergency_snapshot, lines 43-86: the id, the directory, the threads.
EmergencySnapshotCall(threat_type) ==
    LET snapshot_id == SnapshotId(now)
    IN  /\ trigger.pc \in {"idle", "returned"}
        /\ Len(snapshot_ids) < MaxSnapshots
        /\ snapshot_ids' = Append(snapshot_ids, snapshot_id)
        \* snapshot_dir.mkdir(parents=True, exist_ok=True)
        /\ snapshots_dir' = IF snapshot_id \in DOMAIN snapshots_dir
                            THEN snapshots_dir
                            ELSE (snapshot_id :> <<>>) @@ snapshots_dir
        /\ trigger' = [pc |-> "start", snapshot_id |-> snapshot_id,
                       threat_type |-> threat_type,
                       threads |-> Threads(threat_type, capture_network),
                       next |-> 1]
        /\ tasks' = NoTasks
        /\ UNCHANGED <<os_type, capture_network>>

\* emergency_snapshot called on the engine directly.
EmergencySnapshot(threat_type) ==
    /\ EmergencySnapshotCall(threat_type)
    /\ UNCHANGED <<vaultVars, raceVars, monVars, dedupVars, collVars, workerVars>>

\* lines 89-90: for thread in threads: thread.start()
StartThread ==
    /\ trigger.pc = "start"
    /\ tasks' = [tasks EXCEPT ![trigger.threads[trigger.next]].status = "running"]
    /\ trigger' = IF trigger.next = Len(trigger.threads)
                  THEN [trigger EXCEPT !.pc = "join", !.next = 1]
                  ELSE [trigger EXCEPT !.next = @ + 1]
    /\ UNCHANGED <<os_type, capture_network, snapshots_dir, snapshot_ids>>
    /\ UNCHANGED <<vaultVars, raceVars, monVars, dedupVars, collVars, workerVars>>

\* A started capture task runs to its end, whatever that end is: every target wraps
\* its body in try/except Exception.
TaskEnds(target, outcome) ==
    /\ tasks[target].status = "running"
    /\ outcome \in Outcomes(target, os_type)
    /\ tasks' = [tasks EXCEPT ![target] = [status |-> "finished", outcome |-> outcome]]
    /\ snapshots_dir' = [snapshots_dir EXCEPT ![trigger.snapshot_id] =
                             AfterTask(@, target, os_type, outcome)]
    /\ UNCHANGED <<os_type, capture_network, snapshot_ids, trigger>>
    /\ UNCHANGED <<vaultVars, raceVars, monVars, dedupVars, collVars, workerVars>>

\* lines 93-101: for thread in threads: thread.join(); then return snapshot_id
JoinThread ==
    /\ trigger.pc = "join"
    /\ CanJoin(tasks[trigger.threads[trigger.next]].status)
    /\ trigger' = IF trigger.next = Len(trigger.threads)
                  THEN [trigger EXCEPT !.pc = "returned"]
                  ELSE [trigger EXCEPT !.next = @ + 1]
    /\ UNCHANGED <<os_type, capture_network, snapshots_dir, snapshot_ids, tasks>>
    /\ UNCHANGED <<vaultVars, raceVars, monVars, dedupVars, collVars, workerVars>>

NextSnapshot ==
    \/ \E tt \in ThreatTypes : EmergencySnapshot(tt)
    \/ StartThread
    \/ \E t \in TaskTargets, o \in {"ok", "exception", "write_error", "timeout"} :
           TaskEnds(t, o)
    \/ JoinThread
    \/ Tick

SpecSnapshot == Init /\ [][NextSnapshot]_vars

\* The capture tasks of the call in progress.
Selected == {trigger.threads[i] : i \in 1..Len(trigger.threads)}

Failed(target) == tasks[target].status = "finished" /\ tasks[target].outcome # "ok"

Succeeded(target) == tasks[target].status = "finished" /\ tasks[target].outcome = "ok"

\* C8: every emergency_snapshot call allocates a snapshot id, and so a snapshot
\* directory, distinct from that of every other call.
C8_SnapshotIdsDistinct ==
    \A i, j \in 1..Len(snapshot_ids) : i # j => snapshot_ids[i] # snapshot_ids[j]

\* C9: a failure (exception or tool timeout) of one capture task stops no other task
\* of the call: a started task can always run to its end, a task that captured has
\* its complete artifact in the snapshot directory whatever the others did, and the
\* call returns its snapshot id with every such artifact in place.
C9_TaskFailureIsolated ==
    /\ \A t \in Selected :
           tasks[t].status = "running" => ENABLED TaskEnds(t, "ok")
    /\ \A t \in Selected :
           Succeeded(t) =>
               \A a \in ArtifactOf(t, os_type) :
                   /\ a \in DOMAIN snapshots_dir[trigger.snapshot_id]
                   /\ snapshots_dir[trigger.snapshot_id][a] = "complete"
    /\ trigger.pc = "returned" =>
           trigger.snapshot_id = snapshot_ids[Len(snapshot_ids)]

\* The call has returned; one of its tasks failed after another had captured, and
\* that other task's artifact is in the snapshot directory.
C9_Witness ==
    /\ trigger.pc = "returned"
    /\ Failed("_snapshot_process_state")
    /\ tasks["_snapshot_process_state"].outcome = "exception"
    /\ "_snapshot_network_state" \in Selected
    /\ Succeeded("_snapshot_network_state")
    /\ "network_state.json" \in DOMAIN snapshots_dir[trigger.snapshot_id]

\* C10: emergency_snapshot returns only after every capture task it started has
\* finished (captured, failed or timed out): no task of the call is still running.
C10_ReturnsAfterAllTasks ==
    trigger.pc = "returned" => \A t \in Selected : tasks[t].status = "finished"

\* A call with three tasks has returned.
C10_Witness ==
    /\ trigger.pc = "returned"
    /\ Len(trigger.threads) = 3
    /\ \E t \in Selected : tasks[t].outcome = "timeout"

\* The capture tasks the call in progress has started.
Launched == {t \in TaskTargets : tasks[t].status # "none"}

\* C11: the capture tasks a trigger launches are fixed by threat type and
\* configuration: the process task always, the network task exactly under network
\* capture, the log task exactly for log_clearing, the filesystem task exactly for
\* file_wiping.
C11_TasksByThreatType ==
    trigger.pc \in {"join", "returned"} =>
        /\ "_snapshot_process_state" \in Launched
        /\ ("_snapshot_network_state" \in Launched) = capture_network
        /\ ("_snapshot_event_logs" \in Launched) = (trigger.threat_type = "log_clearing")
        /\ ("_snapshot_filesystem_metadata" \in Launched)
               = (trigger.threat_type = "file_wiping")

\* A log_clearing trigger without network capture has started its threads: the log
\* task and the process task.
C11_Witness ==
    /\ trigger.pc = "join"
    /\ trigger.threat_type = "log_clearing"
    /\ ~capture_network
    /\ Launched = {"_snapshot_event_logs", "_snapshot_process_state"}

\* Every snapshot directory written so far.
SnapshotDirs == {snapshots_dir[id] : id \in DOMAIN snapshots_dir}

\* C12: a vss_deletion trigger writes a volume-state artifact only on Windows; on
\* any other platform no volume-state artifact is ever written, the volume-state
\* task ends without an error, and the call is not kept from returning by it.
C12_VolumeStateOnlyOnWindows ==
    /\ os_type # "windows" =>
           /\ \A dir \in SnapshotDirs : "vss_state.txt" \notin DOMAIN dir
           /\ tasks["_snapshot_vss_state"].status = "finished"
                  => tasks["_snapshot_vss_state"].outcome = "ok"
    /\ (os_type = "windows" /\ trigger.threat_type = "vss_deletion"
            /\ Succeeded("_snapshot_vss_state"))
           => "vss_state.txt" \in DOMAIN snapshots_dir[trigger.snapshot_id]
    /\ \A dir \in SnapshotDirs :
           "vss_state.txt" \in DOMAIN dir => os_type = "windows"

\* A vss_deletion trigger has returned on Linux, its volume-state task having run.
C12_Witness ==
    /\ os_type = "linux"
    /\ trigger.pc = "returned"
    /\ trigger.threat_type = "vss_deletion"
    /\ tasks["_snapshot_vss_state"].status = "finished"
    /\ "process_state.json" \in DOMAIN snapshots_dir[trigger.snapshot_id]

\* A vss_deletion trigger has returned on Windows with the volume-state artifact.
C12_WitnessWindows ==
    /\ os_type = "windows"
    /\ trigger.pc = "returned"
    /\ trigger.threat_type = "vss_deletion"
    /\ "vss_state.txt" \in DOMAIN snapshots_dir[trigger.snapshot_id]

----------------------------------------------------------------------------
(* The threat pattern matcher: ProactiveEvidenceCollector.should_capture     *)
(* (core/proactive_evidence_collector.py).  Command text is a sequence of    *)
(* characters.                                                               *)

LowerOf ==
    ("A" :> "a") @@ ("B" :> "b") @@ ("C" :> "c") @@ ("D" :> "d") @@ ("E" :> "e") @@ ("F" :> "f")
    @@ ("G" :> "g") @@ ("H" :> "h") @@ ("I" :> "i") @@ ("J" :> "j") @@ ("K" :> "k") @@ ("L" :> "l")
    @@ ("M" :> "m") @@ ("N" :> "n") @@ ("O" :> "o") @@ ("P" :> "p") @@ ("Q" :> "q") @@ ("R" :> "r")
    @@ ("S" :> "s") @@ ("T" :> "t") @@ ("U" :> "u") @@ ("V" :> "v") @@ ("W" :> "w") @@ ("X" :> "x")
    @@ ("Y" :> "y") @@ ("Z" :> "z")

\* str.lower(), one character
LowerChar(c) == IF c \in DOMAIN LowerOf THEN LowerOf[c] ELSE c

\* str.lower()
LowerStr(s) == [i \in 1..Len(s) |-> LowerChar(s[i])]

\* str.upper(), used to build inputs
UpperStr(s) ==
    [i \in 1..Len(s) |->
        IF \E c \in DOMAIN LowerOf : LowerOf[c] = s[i]
        THEN CHOOSE c \in DOMAIN LowerOf : LowerOf[c] = s[i]
        ELSE s[i]]

\* needle in text
Contains(text, needle) ==
    \E i \in 0..(Len(text) - Len(needle)) : SubSeq(text, i + 1, i + Len(needle)) = needle

\* pattern.lower() in cmd_to_check, compared as written
PatternInAsWritten(pattern, cmd_to_check) == Contains(cmd_to_check, pattern)

\* pattern.lower() in cmd_to_check
PatternIn(pattern, cmd_to_check) == Contains(cmd_to_check, LowerStr(pattern))

\* Keys of a dict assigned to through a name: the dict the name is bound to
\* changes, and the table changes only when that dict is its own entry i.
AssignKeys(table, i, bound_to, value) ==
    IF bound_to = "entry" THEN [table EXCEPT ![i] = value] ELSE table

Ladder == <<"LOW", "MEDIUM", "HIGH", "CRITICAL">>

\* severity_upgrade.get(severity, 'CRITICAL')
SeverityUpgrade(severity) ==
    CASE severity = "LOW" -> "MEDIUM"
      [] severity = "MEDIUM" -> "HIGH"
      [] severity = "HIGH" -> "CRITICAL"
      [] OTHER -> "CRITICAL"

\* Lines 179-184 with any obfuscated match sent to the top of the ladder.
EscalateToTop(threat_info, obfuscation_techniques) ==
    IF obfuscation_techniques # {}
    THEN [threat_info EXCEPT
             !.description = @ \o <<"Obfuscated", obfuscation_techniques>>,
             !.severity = "CRITICAL"]
    ELSE threat_info

\* Lines 179-184: an obfuscated match below CRITICAL is copied, annotated and raised.
Escalate(threat_info, obfuscation_techniques) ==
    IF obfuscation_techniques # {} /\ threat_info.severity # "CRITICAL"
    THEN [threat_info EXCEPT
             !.description = @ \o <<"Obfuscated", obfuscation_techniques>>,
             !.severity = SeverityUpgrade(@)]
    ELSE threat_info

\* The table positions whose pattern occurs in cmd_to_check.
MatchesIn(table, cmd_to_check) ==
    {i \in 1..Len(table) : PatternIn(table[i].pattern, cmd_to_check)}

\* The entry the two nested loops of lines 173-175 reach first: the forms in the
\* order original, decoded; within a form, the table in its order.  0 for none.
FirstMatch(table, commands_to_check) ==
    IF \A f \in 1..Len(commands_to_check) : MatchesIn(table, commands_to_check[f]) = {}
    THEN 0
    ELSE LET f == Min({g \in 1..Len(commands_to_check) :
                          MatchesIn(table, commands_to_check[g]) # {}})
         IN  Min(MatchesIn(table, commands_to_check[f]))

\* should_capture with the decoder's answer (decoded_command, obfuscation_techniques).
ShouldCaptureResult(is_enabled, table, command, decoded_command, obfuscation_techniques) ==
    IF ~is_enabled THEN NoMatch
    ELSE LET commands_to_check == <<LowerStr(command), LowerStr(decoded_command)>>
             i == FirstMatch(table, commands_to_check)
         IN  IF i = 0 THEN NoMatch
             ELSE [matched     |-> TRUE,
                   threat_type |-> table[i].threat_type,
                   severity    |-> Escalate(table[i], obfuscation_techniques).severity,
                   description |-> Escalate(table[i], obfuscation_techniques).description]

\* self.threat_patterns after lines 179-184 when threat_info stays bound to the
\* table's own entry.
WrittenInPlace(table, i, obfuscation_techniques) ==
    IF obfuscation_techniques # {} /\ table[i].severity # "CRITICAL"
    THEN AssignKeys(table, i, "entry", Escalate(table[i], obfuscation_techniques))
    ELSE table

\* self.threat_patterns after lines 179-184 have run on entry i: line 180 rebinds
\* threat_info to a copy of the entry (a dict of strings) before lines 181 and 184
\* assign to its keys.
TableAfterMatch(table, i, obfuscation_techniques) ==
    IF obfuscation_techniques # {} /\ table[i].severity # "CRITICAL"
    THEN AssignKeys(table, i, "copy", Escalate(table[i], obfuscation_techniques))
    ELSE table

\* self.threat_patterns after should_capture has returned.
ShouldCaptureTable(is_enabled, table, command, decoded_command, obfuscation_techniques) ==
    IF ~is_enabled THEN table
    ELSE LET i == FirstMatch(table, <<LowerStr(command), LowerStr(decoded_command)>>)
         IN  IF i = 0 THEN table ELSE TableAfterMatch(table, i, obfuscation_techniques)

\* The signatures of a table, as written.
Signatures(table) == {table[i].pattern : i \in 1..Len(table)}

Separator == <<" ", "&", " ">>

Harmless == <<"d", "i", "r">>

\* Commands handed to should_capture: each signature as written, in upper and in
\* lower case, alone or inside other text; two signatures in one command; a command
\* with no signature.
MatcherCommands(table) ==
    {pre \o v \o post :
        pre \in {<<>>, <<"x">>}, post \in {<<>>, <<" ", "q">>},
        v \in UNION {{s, UpperStr(s), LowerStr(s)} : s \in Signatures(table)}}
    \cup {a \o Separator \o b : a \in Signatures(table), b \in Signatures(table)}
    \cup {Harmless}

\* CommandDecoder.decode_if_encoded(command): (decoded_command,
\* obfuscation_techniques).  Nothing encoded gives the command back with no
\* technique; an encoded payload gives the decoded text and the techniques found.
DecodeIfEncoded(table, command) ==
    {<<command, {}>>}
    \cup {<<d, {"base64"}>> : d \in {command, Harmless} \cup Signatures(table)}

\* ProactiveEvidenceCollector.__init__(enabled=e)
NewCollector(e) ==
    /\ capture.pc = "idle"
    /\ enabled' = e
    /\ threat_patterns' = BuildThreatPatterns(os_type)
    /\ snapshots_taken' = 0
    /\ UNCHANGED <<lastMatch, capture>>
    /\ UNCHANGED <<vaultVars, raceVars, monVars, dedupVars, snapVars, workerVars>>

\* should_capture(command), on the command and the decoder's answer drawn at the
\* start.
ShouldCapture ==
    /\ ~lastMatch.valid
    /\ "command" \in DOMAIN lastMatch
    /\ lastMatch' = [valid      |-> TRUE,
                     enabled    |-> enabled,
                     command    |-> lastMatch.command,
                     decoded    |-> lastMatch.decoded,
                     techniques |-> lastMatch.techniques,
                     result     |-> ShouldCaptureResult(enabled, threat_patterns,
                                        lastMatch.command, lastMatch.decoded,
                                        lastMatch.techniques)]
    /\ threat_patterns' = ShouldCaptureTable(enabled, threat_patterns,
                               lastMatch.command, lastMatch.decoded,
                               lastMatch.techniques)
    /\ UNCHANGED <<enabled, snapshots_taken, capture>>
    /\ UNCHANGED <<vaultVars, raceVars, monVars, dedupVars, snapVars, workerVars>>

\* A collector on some platform, about to be asked about some command.
InitMatcher ==
    /\ InitVault /\ InitRace /\ InitDedup /\ InitSnapshot /\ InitWorker /\ InitMonitor
    /\ enabled = TRUE
    /\ threat_patterns = BuildThreatPatterns(os_type)
    /\ snapshots_taken = 0
    /\ capture = [pc |-> "idle"]
    /\ \E c \in MatcherCommands(threat_patterns) :
           \E d \in DecodeIfEncoded(threat_patterns, c) :
               lastMatch = [valid |-> FALSE, command |-> c,
                            decoded |-> d[1], techniques |-> d[2]]

NextMatcher ==
    \/ \E e \in BOOLEAN : NewCollector(e)
    \/ ShouldCapture

SpecMatcher == InitMatcher /\ [][NextMatcher]_vars

\* The table positions whose signature occurs in text, in any letter case.
Occurs(text) ==
    {i \in 1..Len(threat_patterns) :
        Contains(LowerStr(text), LowerStr(threat_patterns[i].pattern))}

\* should_capture was called with the collector enabled.
Asked == lastMatch.valid /\ lastMatch.enabled

\* C13: for every signature of the platform's table and every command containing
\* it anywhere, in any letter case, should_capture (collector enabled) returns a
\* match whose threat type is that signature's threat type.
C13_MatchHasSignatureType ==
    Asked =>
        \A i \in Occurs(lastMatch.command) :
            /\ lastMatch.result.matched
            /\ lastMatch.result.threat_type = threat_patterns[i].threat_type

\* C13 as amended: such a command always yields a match, and the match's threat
\* type is that of the first table entry the command contains: the signature's own
\* type unless an earlier entry of the table also occurs in the command.
C13_MatchHasFirstSignatureType ==
    (Asked /\ Occurs(lastMatch.command) # {}) =>
        /\ lastMatch.result.matched
        /\ lastMatch.result.threat_type =
               threat_patterns[Min(Occurs(lastMatch.command))].threat_type

\* A command that carries a mixed-case signature in upper case inside other text
\* was matched.
C13_Witness ==
    /\ Asked
    /\ os_type = "windows"
    /\ lastMatch.command = <<"x">> \o UpperStr(WindowsPatterns[4].pattern) \o <<" ", "q">>
    /\ lastMatch.result.matched
    /\ lastMatch.result.threat_type = "log_clearing"

\* The table entry a returned match was copied from.
EntryOf(result) ==
    CHOOSE i \in 1..Len(threat_patterns) :
        threat_patterns[i].description[1] = result.description[1]

\* C14: when a command matches several signatures, in its original or in its
\* de-obfuscated form, should_capture returns the entry that comes first in table
\* order.
C14_FirstInTableOrder ==
    (Asked /\ Occurs(lastMatch.command) \cup Occurs(lastMatch.decoded) # {}) =>
        /\ lastMatch.result.matched
        /\ EntryOf(lastMatch.result)
               = Min(Occurs(lastMatch.command) \cup Occurs(lastMatch.decoded))

\* The step of the ladder above a severity, CRITICAL being the top.
OneStepUp(severity) ==
    LET k == CHOOSE j \in 1..Len(Ladder) : Ladder[j] = severity
    IN  Ladder[IF k = Len(Ladder) THEN k ELSE k + 1]

\* C15: with obfuscation markers found, a match carries its entry's baseline
\* severity raised exactly one step (LOW to MEDIUM, MEDIUM to HIGH, HIGH to
\* CRITICAL, CRITICAL staying CRITICAL); with none found, the baseline unchanged.
C15_SeverityOneStep ==
    /\ (Asked /\ lastMatch.result.matched) =>
           lastMatch.result.severity =
               IF lastMatch.techniques # {}
               THEN OneStepUp(threat_patterns[EntryOf(lastMatch.result)].severity)
               ELSE threat_patterns[EntryOf(lastMatch.result)].severity
    /\ \A s \in {"LOW", "MEDIUM", "HIGH", "CRITICAL"} :
           /\ Escalate([severity |-> s, description |-> <<>>], {"base64"}).severity
                  = OneStepUp(s)
           /\ Escalate([severity |-> s, description |-> <<>>], {}).severity = s

\* A MEDIUM signature matched with a marker found came back HIGH.
C15_Witness ==
    /\ Asked
    /\ lastMatch.result.matched
    /\ lastMatch.techniques # {}
    /\ threat_patterns[EntryOf(lastMatch.result)].severity = "MEDIUM"
    /\ lastMatch.result.severity = "HIGH"

----------------------------------------------------------------------------
(* capture_threat_context: a capture forced by an outside detector *)

None == <<"None">>

ExternalThreatTypes == {"network_c2", "log_clearing"}

\* The threat types the table of the platform knows.
KnownThreatTypes == {threat_patterns[i].threat_type : i \in 1..Len(threat_patterns)}

\* A capture that is forced only for a threat type of the pattern table.
MayCaptureIfKnown(is_enabled, threat_type) ==
    is_enabled /\ threat_type \in KnownThreatTypes

\* Lines 201-202: the only test before the snapshot is the enabled flag.
MayCapture(is_enabled, threat_type) == is_enabled

\* capture_threat_context up to its emergency_snapshot call.  The call may raise
\* before anything is captured (the snapshot directory cannot be made); the except
\* branch then returns None.
CaptureThreatContext(threat_type, raises) ==
    /\ capture.pc \in {"idle", "returned"}
    /\ trigger.pc \in {"idle", "returned"}
    /\ IF ~MayCapture(enabled, threat_type)
       THEN /\ capture' = [pc |-> "returned", threat_type |-> threat_type,
                           enabled |-> enabled, call |-> 0, outcome |-> "disabled",
                           result |-> None]
            /\ UNCHANGED snapVars
       ELSE IF raises
       THEN /\ Len(snapshot_ids) < MaxSnapshots
            /\ capture' = [pc |-> "returned", threat_type |-> threat_type,
                           enabled |-> enabled, call |-> 0, outcome |-> "raised",
                           result |-> None]
            /\ UNCHANGED snapVars
       ELSE /\ EmergencySnapshotCall(threat_type)
            /\ capture' = [pc |-> "snapshot", threat_type |-> threat_type,
                           enabled |-> enabled, call |-> Len(snapshot_ids'),
                           outcome |-> "none", result |-> None]
    /\ UNCHANGED <<enabled, threat_patterns, snapshots_taken, lastMatch>>
    /\ UNCHANGED <<vaultVars, raceVars, monVars, dedupVars, workerVars>>

\* Lines 213-220: the counter, get_snapshot_info, the return; get_snapshot_info
\* may raise (the directory is gone), and the except branch returns None.
CaptureReturn(info_raises) ==
    /\ capture.pc = "snapshot"
    /\ trigger.pc = "returned"
    /\ snapshots_taken' = snapshots_taken + 1
    /\ capture' = [capture EXCEPT
           !.pc = "returned",
           !.outcome = IF info_raises THEN "info_raised" ELSE "ok",
           !.result = IF info_raises THEN None ELSE trigger.snapshot_id]
    /\ UNCHANGED <<enabled, threat_patterns, lastMatch>>
    /\ UNCHANGED <<vaultVars, raceVars, monVars, dedupVars, snapVars, workerVars>>

NextCollector ==
    \/ \E e \in BOOLEAN : NewCollector(e)
    \/ \E tt \in ExternalThreatTypes, raises \in BOOLEAN : CaptureThreatContext(tt, raises)
    \/ StartThread
    \/ \E t \in TaskTargets, o \in {"ok", "exception", "write_error", "timeout"} :
           TaskEnds(t, o)
    \/ JoinThread
    \/ \E info_raises \in BOOLEAN : CaptureReturn(info_raises)
    \/ Tick

SpecCollector == Init /\ [][NextCollector]_vars

----------------------------------------------------------------------------
(* The incident pipeline: the queue, log_worker and what it calls           *)
(* (shadownet_realtime.py, core/incident_report_generator.py).              *)

\* The shutdown signal: incident_queue.put(None)
Sentinel == [stop |-> TRUE]

PipelineCommands == {<<"w", "e", "v", "t", "u", "t", "i", "l", " ", "c", "l">>,
                     <<"v", "s", "s", "a", "d", "m", "i", "n", " ", "l", "i", "s", "t">>}

\* The item on_behavioral_alert puts on the queue.
AlertItem(command) ==
    [command          |-> command,
     matched_keywords |-> {"behavioral_anomaly"},
     ai_res           |-> "behavior",
     is_critical      |-> TRUE]

\* The main thread has put the shutdown signal.
ShuttingDown ==
    \/ worker.pc = "stopped"
    \/ \E i \in 1..Len(incident_queue) : incident_queue[i] = Sentinel

\* on_behavioral_alert(alert_data)
OnBehavioralAlert(command) ==
    /\ ~ShuttingDown
    /\ host = "running"
    /\ Len(incident_queue) < MaxQueue
    /\ Len(served) + Len(incident_queue) < MaxItems
    /\ incident_queue' = Append(incident_queue, AlertItem(command))
    /\ UNCHANGED <<clock, recent_commands, detections, prevEvent, lastEvent>>
    /\ UNCHANGED <<vaultVars, raceVars, monVars, snapVars, collVars, workerVars>>

\* KeyboardInterrupt in the main thread, lines 299-302.  monitor is bound only when
\* process monitoring is enabled in the configuration (lines 265-268): if it is not,
\* monitor.stop_monitoring() raises NameError inside the handler and the main thread
\* ends there, before the put.  Otherwise incident_queue.put(None), then the join.
Shutdown(monitor_bound) ==
    /\ ~ShuttingDown
    /\ host = "running"
    /\ IF monitor_bound
       THEN /\ monitor' = [monitor EXCEPT !.monitoring = FALSE]
            /\ incident_queue' = Append(incident_queue, Sentinel)
            /\ host' = "joining"
       ELSE /\ monitor' = monitor
            /\ incident_queue' = incident_queue
            /\ host' = "exited"
    /\ UNCHANGED <<clock, recent_commands, detections, prevEvent, lastEvent>>
    /\ UNCHANGED <<monitor_threads, processes, delivered, handlers>>
    /\ UNCHANGED <<vaultVars, raceVars, snapVars, collVars>>
    /\ UNCHANGED <<worker, threat_log, served>>

\* The main thread leaves from its join only.
MayExit(h) == h = "joining"

\* lines 303-304: worker_thread.join(timeout=5) returns, because the worker ended or
\* because the five seconds passed (no step of the worker is bounded in time), and
\* the main thread runs off its end: the worker, a daemon thread, ends with it.
HostExits ==
    /\ MayExit(host)
    /\ host' = "exited"
    /\ UNCHANGED <<vaultVars, raceVars, monVars, dedupVars, snapVars, collVars>>
    /\ UNCHANGED <<worker, threat_log, served>>

\* The process is there for the worker to run in.
Alive == host # "exited"

\* A queue that hands out its newest item.
NewestItem(q) == q[Len(q)]

\* queue.Queue.get(): the oldest item.
NextItem(q) == Head(q)

\* The queue without the item handed out.
Remaining(q, item) ==
    IF item = Head(q) THEN Tail(q) ELSE SubSeq(q, 1, Len(q) - 1)

\* The ledger entries that record a preserved snapshot archive.
Archived ==
    Cardinality({i \in 1..Len(chain_of_custody_file.entries) :
        /\ "artifact_type" \in DOMAIN chain_of_custody_file.entries[i]
        /\ chain_of_custody_file.entries[i].artifact_type = "snapshot_archive"})

\* f"INC-{timestamp}"
IncidentId(t) == <<"INC", Strftime(t)>>

\* log_worker, lines 98-112: get, the shutdown test, the unpacking, the incident id.
\* ai_res.get('severity'): the analysis results of the model carry no severity of
\* their own, and the forced result of line 238 has none.
AiSeverity(ai_res) == "none"

\* line 112: "CRITICAL" if is_critical or ai_res.get('severity') == 'CRITICAL' else "HIGH"
LogSeverity(is_critical, ai_severity) ==
    IF is_critical \/ ai_severity = "CRITICAL" THEN "CRITICAL" ELSE "HIGH"

Dequeue ==
    LET item == NextItem(incident_queue)
    IN  /\ Alive
        /\ worker.pc = "get"
        /\ incident_queue # <<>>
        /\ incident_queue' = Remaining(incident_queue, item)
        /\ IF item = Sentinel
           THEN /\ worker' = [Waiting EXCEPT !.pc = "stopped"]
                /\ UNCHANGED served
           ELSE /\ worker' = [pc |-> "snapshot", item |-> item,
                              incident_id |-> IncidentId(now), snapshot_id |-> NA,
                              severity |-> LogSeverity(item.is_critical,
                                                       AiSeverity(item.ai_res)),
                              failed |-> {}, archived_before |-> Archived,
                              logged_before |-> Len(threat_log)]
                /\ served' = Append(served, item)
        /\ UNCHANGED <<clock, recent_commands, detections, prevEvent, lastEvent>>
        /\ UNCHANGED <<threat_log, host>>
        /\ UNCHANGED <<vaultVars, raceVars, monVars, snapVars, collVars>>

\* Step 1, lines 115-127: on_threat_detected -> capture_before_execution ->
\* should_capture.  Without a table match, with the collector disabled, or when the
\* call raises, no snapshot is taken and snapshot_id stays "N/A".
SnapshotStep(raises) ==
    /\ Alive
    /\ worker.pc = "snapshot"
    /\ \E decoded \in DecodeIfEncoded(threat_patterns, worker.item.command) :
         LET threat_info == ShouldCaptureResult(enabled, threat_patterns,
                                worker.item.command, decoded[1], decoded[2])
         IN  IF raises
             THEN /\ worker' = [worker EXCEPT
                         !.pc = "report", !.failed = @ \cup {"snapshot"}]
                  /\ UNCHANGED snapVars
             ELSE IF ~threat_info.matched
             THEN /\ worker' = [worker EXCEPT !.pc = "report"]
                  /\ UNCHANGED snapVars
             ELSE /\ EmergencySnapshotCall(threat_info.threat_type)
                  /\ worker' = [worker EXCEPT !.pc = "in_snapshot"]
    /\ UNCHANGED <<threat_log, served, host>>
    /\ UNCHANGED <<vaultVars, raceVars, monVars, dedupVars, collVars>>

\* Step 1, once emergency_snapshot has returned: capture_before_execution lines
\* 252-264 (get_snapshot_info may raise, which gives None) and lines 123-125.
SnapshotReturns(info_raises) ==
    /\ Alive
    /\ worker.pc = "in_snapshot"
    /\ trigger.pc = "returned"
    /\ snapshots_taken' = snapshots_taken + 1
    /\ worker' = IF info_raises
                 THEN [worker EXCEPT !.pc = "report", !.failed = @ \cup {"snapshot"}]
                 ELSE [worker EXCEPT !.pc = "report", !.snapshot_id = trigger.snapshot_id]
    \* the call's thread list goes out of scope
    /\ trigger' = [trigger EXCEPT !.pc = "idle", !.threads = <<>>, !.next = 1]
    /\ tasks' = NoTasks
    /\ UNCHANGED <<os_type, capture_network, snapshots_dir, snapshot_ids>>
    /\ UNCHANGED <<enabled, threat_patterns, lastMatch, capture>>
    /\ UNCHANGED <<threat_log, served, host>>
    /\ UNCHANGED <<vaultVars, raceVars, monVars, dedupVars>>

\* The incident record: the fields of incident_data that tell records apart.
IncidentData(w) ==
    [incident_id |-> w.incident_id, command |-> w.item.command,
     snapshot_id |-> w.snapshot_id, severity |-> w.severity]

ReportOutcomes == {"ok", "vault_error", "archive_error", "exception"}

\* shutil.make_archive of the snapshot directory, as a source file for the vault.
SnapshotArchive(snapshot_id) ==
    [name |-> "RAW_EVIDENCE_SNAPSHOT.zip", exists |-> TRUE,
     content |-> snapshots_dir[snapshot_id]]

\* A generator that looks for the snapshot directory where none is.
HasSnapshotDirNowhere(snapshot_id) == FALSE

\* snapshot_id and snapshot_dir.exists()
HasSnapshotDir(snapshot_id) == snapshot_id \in DOMAIN snapshots_dir

\* Step 2, lines 129-144: generate_incident_report.  It may raise before it
\* reaches the vault (caught at line 143), the vault may raise at save_report
\* (caught at line 78 of the generator), or the archive may fail to be made or
\* copied after the report was saved.
ReportStep(outcome) ==
    LET content == <<"report", worker.incident_id>>
        report_file == ReportFile(worker.incident_id, "forensic", now)
        reported == AddCustodyEntry(InitChainOfCustody(chain_of_custody_file),
                        ReportEntry(now, worker.incident_id, "forensic", content))
        source == SnapshotArchive(worker.snapshot_id)
        artifact_id == ArtifactId(now, "snapshot_archive")
        dest_file == ArtifactFile(worker.incident_id, artifact_id, source.name)
        archive == HasSnapshotDir(worker.snapshot_id) /\ outcome = "ok"
    IN  /\ Alive
        /\ worker.pc = "report"
        /\ outcome = "archive_error" => HasSnapshotDir(worker.snapshot_id)
        /\ worker' = [worker EXCEPT
               !.pc = "siem",
               !.failed = IF outcome = "ok" THEN @ ELSE @ \cup {"report"}]
        /\ IF outcome = "exception"
           THEN UNCHANGED <<vaultOpen, chain_of_custody_file, files, lastOp>>
           ELSE IF outcome = "vault_error"
           THEN /\ vaultOpen' = TRUE
                /\ chain_of_custody_file' = InitChainOfCustody(chain_of_custody_file)
                /\ UNCHANGED <<files, lastOp>>
           ELSE /\ vaultOpen' = TRUE
                /\ files' = IF archive
                            THEN WriteFile(WriteFile(files, report_file, content),
                                           dest_file, source.content)
                            ELSE WriteFile(files, report_file, content)
                /\ chain_of_custody_file' =
                       IF archive
                       THEN AddCustodyEntry(reported,
                                ArtifactEntry(now, worker.incident_id, "snapshot_archive",
                                              source, files'[dest_file]))
                       ELSE reported
                /\ lastOp' = IF archive
                             THEN [op |-> "preserve_file_artifact", id |-> artifact_id,
                                   ok |-> TRUE]
                             ELSE [op |-> "save_report", id |-> <<"forensic">>, ok |-> TRUE]
        /\ UNCHANGED <<now, threat_log, served, host>>
        /\ UNCHANGED <<raceVars, monVars, dedupVars, snapVars, collVars>>

\* Step 3, lines 147-155: siem.send_event inside try / bare except, which passes:
\* a failure leaves no trace.
SiemStep(raises) ==
    /\ Alive
    /\ worker.pc = "siem"
    /\ worker' = [worker EXCEPT !.pc = "alert"]
    /\ UNCHANGED <<threat_log, served, host>>
    /\ UNCHANGED <<vaultVars, raceVars, monVars, dedupVars, snapVars, collVars>>

\* Step 4, lines 158-166: alert_mgr.send_alert inside try / bare except, which
\* passes: a failure leaves no trace.
AlertStep(raises) ==
    /\ Alive
    /\ worker.pc = "alert"
    /\ worker' = [worker EXCEPT !.pc = "save_json"]
    /\ UNCHANGED <<threat_log, served, host>>
    /\ UNCHANGED <<vaultVars, raceVars, monVars, dedupVars, snapVars, collVars>>

IncidentFile(incident_id) ==
    [dir |-> <<"incidents", incident_id>>, name |-> <<"incident.json">>]

\* A worker loop without its outer try: an exception ends the thread.
WorkerDies == [Waiting EXCEPT !.pc = "dead"]

\* Lines 177-179: the outer except prints, sleeps a second and loops to get().
AfterWorkerException == Waiting

\* Step 5, lines 169-176: incident.json, the counter, threat_log, task_done.  The
\* write has no try of its own: if it raises, the outer except takes over.
SaveJson(raises) ==
    /\ Alive
    /\ worker.pc = "save_json"
    /\ IF raises
       THEN /\ worker' = AfterWorkerException
            /\ UNCHANGED <<files, threat_log>>
       ELSE /\ worker' = Waiting
            /\ files' = WriteFile(files, IncidentFile(worker.incident_id),
                                  IncidentData(worker))
            /\ threat_log' = Append(threat_log, IncidentData(worker))
    /\ UNCHANGED <<now, vaultOpen, chain_of_custody_file, lastOp, served, host>>
    /\ UNCHANGED <<raceVars, monVars, dedupVars, snapVars, collVars>>

\* How the capture tasks end here; their failures are those of SpecSnapshot.
PipelineOutcomes == {"ok"}

NextPipeline ==
    \/ \E c \in PipelineCommands : OnBehavioralAlert(c)
    \/ \E monitor_bound \in BOOLEAN : Shutdown(monitor_bound)
    \/ HostExits
    \/ Dequeue
    \/ \E raises \in BOOLEAN : SnapshotStep(raises)
    \/ StartThread
    \/ \E t \in TaskTargets, o \in PipelineOutcomes : TaskEnds(t, o)
    \/ JoinThread
    \/ \E info_raises \in BOOLEAN : SnapshotReturns(info_raises)
    \/ \E o \in ReportOutcomes : ReportStep(o)
    \/ \E raises \in BOOLEAN : SiemStep(raises)
    \/ \E raises \in BOOLEAN : AlertStep(raises)
    \/ \E raises \in BOOLEAN : SaveJson(raises)
    \/ Tick

SpecPipeline == Init /\ [][NextPipeline]_vars

----------------------------------------------------------------------------
(* The severity recorded for an item whose analysis raised, next to the       *)
(* severity should_capture gives the same command.                            *)

\* lines 236-240: the item enqueued when analyze_command raised.
ForcedItem(command) ==
    [command          |-> command,
     matched_keywords |-> {},
     ai_res           |-> "forced",
     is_critical      |-> TRUE]

\* on_suspicious_command for the command the collector is asked about, the event
\* flagged and new, the analysis raising: lines 233-240.
OnAnalysisError ==
    /\ incident_queue = <<>>
    /\ served = <<>>
    /\ incident_queue' = <<ForcedItem(lastMatch.command)>>
    /\ UNCHANGED <<clock, recent_commands, detections, prevEvent, lastEvent>>
    /\ UNCHANGED <<vaultVars, raceVars, monVars, snapVars, collVars, workerVars>>

NextSeverity ==
    \/ ShouldCapture
    \/ OnAnalysisError
    \/ Dequeue

SpecSeverity == InitMatcher /\ [][NextSeverity]_vars

\* C22: when the external verdict is unavailable or erroring, the severity recorded
\* for the incident is the severity the threat pattern matcher assigns to the
\* command: its table baseline, escalated if obfuscated.
C22_SeverityOfMatcher ==
    (/\ worker.pc = "snapshot"
     /\ worker.item.ai_res = "forced"
     /\ Asked
     /\ lastMatch.result.matched
     /\ lastMatch.command = worker.item.command)
    => worker.severity = lastMatch.result.severity

\* The worker holds an item and is at one of its processing steps.
Busy == worker.pc \in {"snapshot", "in_snapshot", "report", "siem", "alert", "save_json"}

\* C17: the consumer takes queue items strictly in arrival order and one at a time:
\* the queue changes only by a put at its tail or by the worker, holding no item,
\* taking its head; the item taken is held through every step; no item is skipped
\* or served twice.
C17_ArrivalOrderOneAtATime ==
    [][/\ incident_queue' # incident_queue =>
           \/ /\ Len(incident_queue') = Len(incident_queue) + 1
              /\ SubSeq(incident_queue', 1, Len(incident_queue)) = incident_queue
           \/ /\ incident_queue # <<>>
              /\ incident_queue' = Tail(incident_queue)
              /\ worker.pc = "get"
              /\ IF Head(incident_queue) = Sentinel
                 THEN worker'.pc = "stopped" /\ served' = served
                 ELSE /\ worker'.pc = "snapshot"
                      /\ worker'.item = Head(incident_queue)
                      /\ served' = Append(served, Head(incident_queue))
       /\ served' # served => incident_queue' # incident_queue
       /\ (Busy /\ worker'.pc # "get") => worker'.item = worker.item]_vars

\* Two different items were served in the order they arrived, each with its record.
C17_Witness ==
    /\ Len(served) = 2
    /\ served[1] # served[2]
    /\ Len(threat_log) = 2
    /\ threat_log[1].command = served[1].command
    /\ threat_log[2].command = served[2].command
    /\ worker.pc = "get"

\* The step that follows a processing step of the worker.
FollowingPc(pc) ==
    CASE pc = "snapshot" -> "report"
      [] pc = "in_snapshot" -> "report"
      [] pc = "report" -> "siem"
      [] pc = "siem" -> "alert"
      [] pc = "alert" -> "save_json"
      [] pc = "save_json" -> "get"

\* C18: a failure in any one step of an item (snapshot trigger, report generation,
\* SIEM, alerting, raw JSON write) is caught: whatever the step's outcome the worker
\* moves on to the following step, and after the last one to the next queued item;
\* it ends only on the shutdown signal.
C18_StepFailureCaught ==
    [][/\ (Busy /\ worker' # worker) =>
           \/ worker'.pc = FollowingPc(worker.pc)
           \/ worker.pc = "snapshot" /\ worker'.pc = "in_snapshot"
       /\ (worker.pc = "get" /\ worker' # worker) =>
           \/ worker'.pc = "snapshot"
           \/ worker'.pc = "stopped" /\ Head(incident_queue) = Sentinel]_vars

\* The JSON write of the first item raised and the report of the second failed; the
\* worker served the second item all the same and waits for the next.
C18_Witness ==
    /\ Len(served) = 2
    /\ served[1] # served[2]
    /\ Len(threat_log) = 1
    /\ threat_log[1].command = served[2].command
    /\ worker.pc = "get"

\* C19: with the collector enabled, the snapshot engine is triggered as the first
\* step for every item dequeued, so every item that goes on to its later steps, and
\* every incident record emitted, carries a populated snapshot id (not "N/A").
C19_SnapshotIdPopulated ==
    enabled =>
        /\ worker.pc \in {"report", "siem", "alert", "save_json"} => worker.snapshot_id # NA
        /\ \A i \in DOMAIN threat_log : threat_log[i].snapshot_id # NA

\* The worker finishes an item whose snapshot was taken.
FinishesCaptured ==
    /\ worker.pc = "save_json"
    /\ worker'.pc = "get"
    /\ worker.snapshot_id # NA

SentinelQueued == \E i \in 1..Len(incident_queue) : incident_queue[i] = Sentinel

\* C23: on interruption the host enqueues the stop sentinel and waits a bounded time
\* for the consumer, which processes every item enqueued before the sentinel, in
\* order, and then terminates on the sentinel: once the host has left, the consumer
\* has stopped on the sentinel and nothing is left on the queue.
C23_DrainedBeforeExit ==
    host = "exited" => (worker.pc = "stopped" /\ incident_queue = <<>>)

----------------------------------------------------------------------------
(* preserve_file_artifact when one of its steps fails (utils/evidence_vault.py, *)
(* lines 102-138)                                                              *)

\* Where the call fails: the mkdir of line 107, which is outside the try; the copy
\* of line 114; the hash of line 117; in _add_custody_entry the read of lines
\* 237-238, the open for writing of line 242, the dump of line 243.
FailurePoints == {"mkdir", "copy", "hash", "ledger_read", "ledger_open", "ledger_dump"}

\* The failures that the try of lines 113-138 covers.
CaughtFailures == FailurePoints \ {"mkdir"}

\* The failures after the copy of line 114 has stored the file.
AfterCopy == {"hash", "ledger_read", "ledger_open", "ledger_dump"}

\* The ledger file after the failure: open(..., 'w') has emptied it by the time
\* json.dump fails; every earlier failure leaves it alone.
LedgerAfterFailure(f, fault) ==
    IF fault = "ledger_dump" THEN [state |-> "empty", entries |-> <<>>] ELSE f

PreserveFileArtifactFails(incident_id, source, artifact_type, fault) ==
    LET artifact_id == ArtifactId(now, artifact_type)
        dest_file == ArtifactFile(incident_id, artifact_id, source.name)
    IN  /\ CanAppend
        /\ CanStore(dest_file)
        /\ source.exists
        /\ files' = IF fault \in AfterCopy
                    THEN WriteFile(files, dest_file, source.content) ELSE files
        /\ chain_of_custody_file' = LedgerAfterFailure(chain_of_custody_file, fault)
        /\ lastOp' = [op |-> "preserve_file_artifact", id |-> NoId, ok |-> FALSE,
                      fault |-> fault, raised |-> fault \notin CaughtFailures,
                      before |-> chain_of_custody_file]
        /\ UNCHANGED <<now, vaultOpen>>
        /\ UNCHANGED notVault

NextVaultFaults ==
    \/ NextVault
    \/ \E i \in IncidentIds, s \in SourceFiles, a \in ArtifactTypes, f \in FailurePoints :
           PreserveFileArtifactFails(i, s, a, f)

SpecVaultFaults == Init /\ [][NextVaultFaults]_vars

\* C29: when preserve_file_artifact fails (source file missing, copy or hash error,
\* ledger write error), it raises nothing, returns an empty id, and leaves the
\* custody ledger exactly as it was before the call.
C29_FailureLeavesLedger ==
    (lastOp.op = "preserve_file_artifact" /\ ~lastOp.ok /\ "fault" \in DOMAIN lastOp
        /\ lastOp.fault \in CaughtFailures)
    => /\ ~lastOp.raised
       /\ lastOp.id = NoId
       /\ chain_of_custody_file = lastOp.before

----------------------------------------------------------------------------
(* The process monitors: WindowsProcessMonitor and UnixProcessMonitor of    *)
(* core/process_monitor.py, WMIProcessMonitor of core/wmi_process_monitor.py. *)
(* A text is a sequence of tokens, the empty text the empty sequence; a      *)
(* keyword is in a text when one of the tokens is the keyword.               *)

MaxPids == 1
MaxSpawns == 2
MaxThreads == 2
MaxDispatched == 6

Pids == 1..MaxPids

MonitorClasses == {"WindowsProcessMonitor", "UnixProcessMonitor", "WMIProcessMonitor"}

\* seen_pids is cut when it holds more than 1000 ids, down to 500 of them.
MAX_HISTORY == 100

SeenLimit == 1000
KeptAfterCleanup == 500

\* bool(x) of a text or None
Truthy(x) == x # None /\ x # <<>>

\* bool(cmdline) of the list psutil returns
TruthyList(cmdline) == cmdline # <<>>

\* str.strip(): the blanks at both ends go; the texts here never hold a blank
\* token in the middle of a text that also starts or ends with one.
Strip(text) == SelectSeq(text, LAMBDA token : token # " ")

RECURSIVE Join(_)
\* " ".join(cmdline)
Join(cmdline) ==
    IF cmdline = <<>> THEN <<>>
    ELSE IF Len(cmdline) = 1 THEN cmdline[1]
    ELSE cmdline[1] \o <<" ">> \o Join(Tail(cmdline))

\* BaseProcessMonitor._is_suspicious and WMIProcessMonitor._is_suspicious
IsSuspicious(command) ==
    IF ~Truthy(command) THEN FALSE ELSE \E kw \in keywords : ContainsWord(command, kw)

\* any(kw.lower() in name.lower() for kw in self.suspicious_keywords)
IsSuspiciousExe(name) == \E kw \in keywords : ContainsWord(name, kw)

\* What the operating system tells of a process: Name, CommandLine and
\* ExecutablePath to a WMI event, name() and cmdline() to psutil.
WevtutilPath == <<"C:\\Windows\\System32\\", "wevtutil", ".exe">>

ProcessKinds ==
    { \* an ordinary launch of a watched tool
      [name |-> <<"wevtutil", ".exe">>, CommandLine |-> <<"wevtutil", " ", "cl">>,
       ExecutablePath |-> WevtutilPath, cmdline |-> << <<"wevtutil">>, <<"cl">> >>],
      \* the command line is withheld, the path is known
      [name |-> <<"wevtutil", ".exe">>, CommandLine |-> None,
       ExecutablePath |-> WevtutilPath, cmdline |-> <<>>],
      \* neither command line nor path
      [name |-> <<"wevtutil", ".exe">>, CommandLine |-> None,
       ExecutablePath |-> None, cmdline |-> <<>>],
      \* a blank command line
      [name |-> <<"wevtutil", ".exe">>, CommandLine |-> <<" ">>,
       ExecutablePath |-> WevtutilPath, cmdline |-> << <<>> >>],
      \* a process nobody watches
      [name |-> <<"notepad", ".exe">>, CommandLine |-> <<"notepad">>,
       ExecutablePath |-> <<"C:\\Windows\\", "notepad", ".exe">>,
       cmdline |-> << <<"notepad">> >>] }

\* psutil.pids()
CurrentPids == DOMAIN processes.live

\* A worker thread of a monitor before its target function runs.
NewThread(kind) ==
    [kind |-> kind, pc |-> "start", why |-> "none", subscribed |-> FALSE,
     events |-> <<>>, seen |-> {}, last |-> {}, inspected |-> {}, tick |-> 0,
     caught |-> FALSE]

\* The process creation event reaches every watcher that is subscribed.
Notify(threads, pid, proc) ==
    [i \in DOMAIN threads |->
        IF threads[i].subscribed
        THEN [threads[i] EXCEPT !.events = Append(@, [pid |-> pid, process |-> proc,
                                                      born |-> processes.spawned + 1])]
        ELSE threads[i]]

\* The operating system starts a process, under a free id (ids are used again).
Spawn(pid, proc) ==
    /\ pid \notin CurrentPids
    /\ processes.spawned < MaxSpawns
    /\ processes' = [live |-> [q \in CurrentPids \cup {pid} |->
                                  IF q = pid THEN proc ELSE processes.live[q]],
                     born |-> [q \in CurrentPids \cup {pid} |->
                                  IF q = pid THEN processes.spawned + 1
                                  ELSE processes.born[q]],
                     spawned |-> processes.spawned + 1]
    /\ monitor_threads' = Notify(monitor_threads, pid, proc)
    /\ UNCHANGED <<monitor, delivered, handlers>>
    /\ UNCHANGED <<vaultVars, raceVars, dedupVars, snapVars, collVars, workerVars>>

\* A process ends.
Exit(pid) ==
    /\ pid \in CurrentPids
    /\ processes' = [processes EXCEPT
                        !.live = [q \in CurrentPids \ {pid} |-> processes.live[q]],
                        !.born = [q \in CurrentPids \ {pid} |-> processes.born[q]]]
    /\ UNCHANGED <<monitor, monitor_threads, delivered, handlers>>
    /\ UNCHANGED <<vaultVars, raceVars, dedupVars, snapVars, collVars, workerVars>>

\* The record of the call just made on the monitor, and of the flag it found.
Called(m, op) ==
    [m EXCEPT !.call = [op |-> op, seq |-> 1 - m.call.seq, running |-> m.monitoring]]

NeverRunning(m) == FALSE

\* `if self.monitoring: return`
AlreadyRunning(m) == m.monitoring

\* The threads start_monitoring creates, by class and by what was importable.
ThreadsOf(m) ==
    CASE m.class = "WindowsProcessMonitor" ->
            (IF m.HAS_WMI THEN <<NewThread("wmi")>> ELSE <<>>)
            \o (IF m.HAS_PSUTIL THEN <<NewThread("polling")>> ELSE <<>>)
      [] m.class = "UnixProcessMonitor" ->
            IF m.HAS_PSUTIL THEN <<NewThread("polling")>> ELSE <<>>
      [] OTHER -> <<NewThread("wmi"), NewThread("polling")>>

\* start_monitoring of the three classes.
StartMonitoring ==
    /\ AlreadyRunning(monitor)
          \/ Len(monitor_threads) + Len(ThreadsOf(monitor)) <= MaxThreads
    /\ IF AlreadyRunning(monitor)
       THEN /\ monitor' = Called(monitor, "start_monitoring")
            /\ UNCHANGED monitor_threads
       ELSE /\ monitor' = [Called(monitor, "start_monitoring") EXCEPT
                              !.monitoring = ~(monitor.class = "UnixProcessMonitor"
                                               /\ ~monitor.HAS_PSUTIL)]
            /\ monitor_threads' = monitor_threads \o ThreadsOf(monitor)
    /\ UNCHANGED <<processes, delivered, handlers>>
    /\ UNCHANGED <<vaultVars, raceVars, dedupVars, snapVars, collVars, workerVars>>

\* stop_monitoring: the flag is cleared; WMIProcessMonitor then waits at most two
\* seconds for its event thread, and for no other.
StopMonitoring ==
    /\ monitor' = [Called(monitor, "stop_monitoring") EXCEPT !.monitoring = FALSE]
    /\ UNCHANGED <<monitor_threads, processes, delivered, handlers>>
    /\ UNCHANGED <<vaultVars, raceVars, dedupVars, snapVars, collVars, workerVars>>

\* The fallback chain of WindowsProcessMonitor._wmi_monitor_loop: CommandLine,
\* else ExecutablePath, else the name.
WindowsWmiCommand(proc) ==
    LET first == proc.CommandLine
        second == IF ~Truthy(first) \/ Strip(first) = <<>> THEN proc.ExecutablePath
                  ELSE first
    IN  IF ~Truthy(second) THEN proc.name ELSE second

\* full_cmd of WindowsProcessMonitor._polling_loop
WindowsPollingCommand(proc) ==
    IF TruthyList(proc.cmdline) THEN Join(proc.cmdline) ELSE proc.name

\* command_line of WMIProcessMonitor._process_event
WmiClassCommand(proc) ==
    LET command_line == IF Truthy(proc.CommandLine) THEN proc.CommandLine ELSE <<>>
    IN  IF ~Truthy(command_line)
        THEN (IF Truthy(proc.ExecutablePath) THEN proc.ExecutablePath ELSE proc.name)
        ELSE command_line

\* What a worker of the class makes of a process: whether the handler is called,
\* and with which command text.
Dispatch(class, kind, proc) ==
    CASE class = "WindowsProcessMonitor" /\ kind = "wmi" ->
            [called |-> IsSuspicious(WindowsWmiCommand(proc)) \/ IsSuspiciousExe(proc.name),
             command |-> WindowsWmiCommand(proc), method |-> "WMI"]
      [] class = "WindowsProcessMonitor" /\ kind = "polling" ->
            [called |-> IsSuspicious(WindowsPollingCommand(proc))
                            \/ IsSuspiciousExe(proc.name),
             command |-> WindowsPollingCommand(proc), method |-> "Polling"]
      [] class = "WMIProcessMonitor" /\ kind = "wmi" ->
            [called |-> IsSuspicious(WmiClassCommand(proc)),
             command |-> WmiClassCommand(proc), method |-> "WMI"]
      [] OTHER ->
            [called |-> TruthyList(proc.cmdline) /\ IsSuspicious(Join(proc.cmdline)),
             command |-> Join(proc.cmdline), method |-> "Fast-Poll"]

\* The calls of self.callback a worker makes for the processes it inspected, the
\* nth call of the step numbered n.  A set of ids is gone through in the order of
\* its hash table, which for small integers is the order of the ids, and
\* psutil.process_iter yields the processes sorted by id.  The callback raises
\* for the processes in raising.
Deliveries(i, inspected, raising) ==
    LET kind == monitor_threads[i].kind
        dispatched == {x \in inspected : Dispatch(monitor.class, kind, x.process).called}
    IN  { [thread |-> i, pid |-> e.pid, process |-> e.process, born |-> e.born,
           nth |-> 1 + Cardinality({y \in dispatched : y.pid < e.pid}),
           raised |-> e.pid \in raising,
           command |-> Dispatch(monitor.class, kind, e.process).command,
           method |-> Dispatch(monitor.class, kind, e.process).method] :
          e \in dispatched }

\* len(command_history) after n more appends to deque(maxlen=MAX_HISTORY)
Appended(length, n) == IF length + n > MAX_HISTORY THEN MAX_HISTORY ELSE length + n

DiesInCallback(thread, calls) ==
    IF \E d \in calls : d.raised
    THEN [thread EXCEPT !.pc = "exited", !.why = "callback", !.subscribed = FALSE]
    ELSE thread

\* The worker after the calls of the callback: an exception of the callback is
\* caught and printed in _handle_suspicious_command, and the worker goes on.
AfterCallbacks(thread, calls) ==
    [thread EXCEPT !.caught = @ \/ \E d \in calls : d.raised]

StoppedOnSubscriptionFailure(m) == [m EXCEPT !.monitoring = FALSE]

\* The monitor after the subscription of its event worker failed.
AfterSubscriptionFailure(m) == m

\* The event worker initialises COM and subscribes to process creations; when
\* that fails it prints, uninitialises COM and returns.
WmiSubscribe(i, ok) ==
    /\ i \in DOMAIN monitor_threads
    /\ monitor_threads[i].kind = "wmi"
    /\ monitor_threads[i].pc = "start"
    /\ IF ok
       THEN /\ monitor_threads' = [monitor_threads EXCEPT ![i].pc = "loop",
                                                          ![i].subscribed = TRUE]
            /\ UNCHANGED monitor
       ELSE /\ monitor_threads' = [monitor_threads EXCEPT ![i].pc = "exited",
                                                          ![i].why = "subscription"]
            /\ monitor' = AfterSubscriptionFailure(monitor)
    /\ delivered' = {}
    /\ UNCHANGED <<processes, handlers>>
    /\ UNCHANGED <<vaultVars, raceVars, dedupVars, snapVars, collVars, workerVars>>

\* `while self.monitoring` of a worker's loop
SeesFlagSet(m) == m.monitoring

\* The worker leaves its loop: the subscription goes with the thread.
Leave(thread) ==
    [thread EXCEPT !.pc = "exited", !.why = "flag", !.subscribed = FALSE, !.events = <<>>]

\* One turn of the event loop: the flag is tested, then the watcher returns the
\* next creation event (a timeout changes nothing) and the event is handled.
WmiLoop(i, raising) ==
    /\ i \in DOMAIN monitor_threads
    /\ monitor_threads[i].kind = "wmi"
    /\ monitor_threads[i].pc = "loop"
    /\ IF ~SeesFlagSet(monitor)
       THEN /\ raising = {}
            /\ monitor_threads' = [monitor_threads EXCEPT ![i] = Leave(@)]
            /\ delivered' = {}
            /\ UNCHANGED monitor
       ELSE /\ monitor_threads[i].events # <<>>
            /\ LET event == Head(monitor_threads[i].events)
                   calls == Deliveries(i, {event}, raising)
               IN  /\ raising \subseteq {d.pid : d \in calls}
                   /\ monitor.suspicious_detected + Cardinality(calls) <= MaxDispatched
                   /\ monitor_threads' =
                          [monitor_threads EXCEPT
                             ![i] = AfterCallbacks([@ EXCEPT !.events = Tail(@)], calls)]
                   /\ delivered' = calls
                   /\ monitor' =
                        [monitor EXCEPT
                           !.processes_detected =
                               IF monitor.class = "WMIProcessMonitor" \/ calls # {}
                               THEN @ + 1 ELSE @,
                           !.suspicious_detected = @ + Cardinality(calls),
                           !.command_history = Appended(@, Cardinality(calls))]
    /\ UNCHANGED <<processes, handlers>>
    /\ UNCHANGED <<vaultVars, raceVars, dedupVars, snapVars, collVars, workerVars>>

\* Before its loop the Windows polling worker takes the running processes as its
\* baseline; the two others start from the empty set.
PollingStart(i) ==
    /\ i \in DOMAIN monitor_threads
    /\ monitor_threads[i].kind = "polling"
    /\ monitor_threads[i].pc = "start"
    /\ LET baseline == IF monitor.class = "WindowsProcessMonitor" THEN CurrentPids ELSE {}
       IN  monitor_threads' = [monitor_threads EXCEPT ![i].pc = "loop",
                                                      ![i].seen = baseline,
                                                      ![i].last = baseline]
    /\ delivered' = {}
    /\ UNCHANGED <<monitor, processes, handlers>>
    /\ UNCHANGED <<vaultVars, raceVars, dedupVars, snapVars, collVars, workerVars>>

\* The ids a cycle takes for new.
NewPids(thread) == CurrentPids \ thread.seen

\* The new ids a cycle gets through: all of them, or those before the one at
\* which an unexpected exception ended the cycle.
Reached(thread, failed) ==
    {q \in NewPids(thread) : \A r \in failed : q < r}

\* The baseline a cycle leaves: the enumeration itself (Windows, set before the
\* inspection; Unix, set after it and not at all when the cycle raised), or every
\* id ever looked at, cut when over the limit to some of them (WMIProcessMonitor).
Baselines(class, thread, failed) ==
    CASE class = "WindowsProcessMonitor" -> {CurrentPids}
      [] class = "UnixProcessMonitor" ->
            {IF failed = {} THEN CurrentPids ELSE thread.seen}
      [] OTHER ->
            LET looked == thread.seen \cup Reached(thread, failed) \cup failed
            IN  IF Cardinality(looked) > SeenLimit
                THEN {kept \in SUBSET looked : Cardinality(kept) = KeptAfterCleanup}
                ELSE {looked}

\* One cycle of a polling loop: the flag is tested, the ids are enumerated, the
\* new ones are inspected one after the other and the suspicious ones dispatched,
\* unless the process is gone or access to it is denied (denied); an exception of
\* another kind at one id (failed) ends the cycle there.
PollingCycle(i, denied, failed, raising) ==
    /\ i \in DOMAIN monitor_threads
    /\ monitor_threads[i].kind = "polling"
    /\ monitor_threads[i].pc = "loop"
    /\ IF ~SeesFlagSet(monitor)
       THEN /\ denied = {} /\ failed = {} /\ raising = {}
            /\ monitor_threads' = [monitor_threads EXCEPT ![i] = Leave(@)]
            /\ delivered' = {}
            /\ UNCHANGED monitor
       ELSE /\ failed \subseteq NewPids(monitor_threads[i])
            /\ Cardinality(failed) <= 1
            /\ denied \subseteq Reached(monitor_threads[i], failed)
            /\ LET done == Reached(monitor_threads[i], failed)
                   calls == Deliveries(i, {[pid |-> q, process |-> processes.live[q],
                                            born |-> processes.born[q]] :
                                              q \in done \ denied}, raising)
               IN  /\ raising \subseteq {d.pid : d \in calls}
                   /\ \E baseline \in Baselines(monitor.class, monitor_threads[i], failed) :
                          monitor_threads' =
                             [monitor_threads EXCEPT
                                ![i] = AfterCallbacks([@ EXCEPT !.seen = baseline,
                                                                !.last = CurrentPids,
                                                                !.inspected = done \cup failed,
                                                                !.tick = 1 - @], calls)]
                   /\ monitor.suspicious_detected + Cardinality(calls) <= MaxDispatched
                   /\ delivered' = calls
                   /\ monitor' = [monitor EXCEPT
                                     !.suspicious_detected = @ + Cardinality(calls),
                                     !.command_history = Appended(@, Cardinality(calls))]
    /\ UNCHANGED <<processes, handlers>>
    /\ UNCHANGED <<vaultVars, raceVars, dedupVars, snapVars, collVars, workerVars>>

MonitorThreads == 1..MaxThreads

NextMonitor ==
    \/ StartMonitoring
    \/ StopMonitoring
    \/ \E pid \in Pids, proc \in ProcessKinds : Spawn(pid, proc)
    \/ \E pid \in Pids : Exit(pid)
    \/ \E i \in MonitorThreads, ok \in BOOLEAN : WmiSubscribe(i, ok)
    \/ \E i \in MonitorThreads, raising \in SUBSET Pids : WmiLoop(i, raising)
    \/ \E i \in MonitorThreads : PollingStart(i)
    \/ \E i \in MonitorThreads, denied \in SUBSET Pids, failed \in SUBSET Pids,
          raising \in SUBSET Pids :
           PollingCycle(i, denied, failed, raising)

\* A monitor of any class, on the platform of the class, with or without the
\* optional modules; WMIProcessMonitor cannot be built without wmi.
InitMonitors ==
    /\ InitVault /\ InitRace /\ InitDedup /\ InitSnapshot /\ InitCollector /\ InitWorker
    /\ capture_network
    /\ \E class \in MonitorClasses, has_wmi \in BOOLEAN, has_psutil \in BOOLEAN :
          /\ class = "WMIProcessMonitor" => (has_wmi /\ has_psutil)
          /\ os_type = IF class = "UnixProcessMonitor" THEN "linux" ELSE "windows"
          /\ monitor = NewMonitor(class, has_wmi, has_psutil)
    /\ monitor_threads = <<>>
    /\ processes = NoProcesses
    /\ delivered = {}
    /\ handlers = IdleHandlers

SpecMonitor == InitMonitors /\ [][NextMonitor]_vars

\* C24: a call of start_monitoring on a monitor whose monitoring flag is set starts
\* no worker and changes nothing of the monitor, its workers or what they have seen.
C24_StartWhileRunningIsNoOp ==
    [][(/\ monitor.monitoring
        /\ monitor'.call # monitor.call
        /\ monitor'.call.op = "start_monitoring")
       => /\ monitor' = Called(monitor, "start_monitoring")
          /\ monitor_threads' = monitor_threads
          /\ delivered' = delivered]_vars

C24_Witness ==
    /\ monitor.call.op = "start_monitoring"
    /\ monitor.call.running
    /\ monitor.monitoring
    /\ Len(monitor_threads) = Len(ThreadsOf(monitor))
    /\ \E i \in DOMAIN monitor_threads : monitor_threads[i].pc = "loop"

\* C26: the command text a worker hands to the callback is never empty, and it is
\* the command line of the process when there is one, else its executable path,
\* else its bare name.
C26_DeliveredTextFallsBack ==
    \A d \in delivered :
        LET proc == d.process
            expected ==
                IF Truthy(proc.CommandLine) /\ Strip(proc.CommandLine) # <<>>
                THEN proc.CommandLine
                ELSE IF Truthy(proc.ExecutablePath) THEN proc.ExecutablePath
                ELSE proc.name
        IN  /\ d.command # <<>>
            /\ d.command = expected

\* C27: when the event worker cannot establish its subscription it ends alone: the
\* monitor, its monitoring flag included, and every other worker are as they were,
\* so the polling worker goes on observing and delivering.
C27_SubscriptionFailureLeavesPolling ==
    [][\A i \in DOMAIN monitor_threads :
          (/\ monitor_threads[i].pc = "start"
           /\ monitor_threads'[i].pc = "exited"
           /\ monitor_threads'[i].why = "subscription")
          => /\ monitor' = monitor
             /\ \A j \in DOMAIN monitor_threads \ {i} :
                    monitor_threads'[j] = monitor_threads[j]]_vars

C27_Witness ==
    /\ monitor.monitoring
    /\ \E i \in DOMAIN monitor_threads :
          /\ monitor_threads[i].kind = "wmi"
          /\ monitor_threads[i].why = "subscription"
    /\ \E d \in delivered :
          /\ d.method = "Polling"
          /\ monitor_threads[d.thread].pc = "loop"

\* C30: a polling cycle inspects exactly the ids that are in its enumeration and
\* were not in the enumeration of the cycle before; an id that is in both is not
\* inspected again.
C30_InspectsExactlyTheNewIds ==
    [][\A i \in DOMAIN monitor_threads :
          (/\ monitor_threads[i].kind = "polling"
           /\ monitor_threads'[i].tick # monitor_threads[i].tick)
          => monitor_threads'[i].inspected = CurrentPids \ monitor_threads[i].last]_vars

----------------------------------------------------------------------------
(* Stopping a monitor.  The workers are threads of their own: each of them *)
(* is scheduled again and again (the watcher returns after its timeout, the *)
(* polling loop after its sleep), which is weak fairness of its step; the   *)
(* calls on the monitor and the processes of the system come when they come. *)

\* One step of worker i, whichever it is.
WorkerStep(i) ==
    \/ \E ok \in BOOLEAN : WmiSubscribe(i, ok)
    \/ \E raising \in SUBSET Pids : WmiLoop(i, raising)
    \/ PollingStart(i)
    \/ \E denied \in SUBSET Pids, failed \in SUBSET Pids, raising \in SUBSET Pids :
           PollingCycle(i, denied, failed, raising)

SpecMonitorLive ==
    /\ InitMonitors
    /\ [][NextMonitor]_vars
    /\ \A i \in MonitorThreads : WF_vars(WorkerStep(i))

\* C25: once the monitoring flag is cleared, every worker that has not ended yet
\* ends its loop in time and holds no subscription any more.
C25_StopEndsEveryWorker ==
    \A i \in MonitorThreads :
        (/\ i \in DOMAIN monitor_threads
         /\ monitor_threads[i].pc # "exited"
         /\ ~monitor.monitoring)
        ~> (/\ i \in DOMAIN monitor_threads
            /\ monitor_threads[i].pc = "exited"
            /\ ~monitor_threads[i].subscribed)

----------------------------------------------------------------------------
(* on_suspicious_command run by the two workers of one monitor at once.  The *)
(* event worker and the polling worker are two threads and each calls the    *)
(* callback itself; recent_commands is a plain dict and nothing is locked,   *)
(* so the threads may be switched between any two statements.  The increment *)
(* of the detection counter is taken as one step.                            *)

\* The other worker.
Other(h) == CHOOSE o \in HandlerThreads : o # h

\* A handler between its first and its last statement.
InHandler(h) == handlers[h].pc \in {"test", "store", "analyze"}

\* Lines 190-191: the key is built and the time is read.
HandlerEnter(h, name, command) ==
    /\ handlers[h].pc = "idle"
    /\ handlers' =
          [o \in HandlerThreads |->
              IF o = h
              THEN [pc |-> "test", name |-> name, command |-> command, now |-> clock,
                    overlapped |-> InHandler(Other(h))]
              ELSE IF InHandler(o) THEN [handlers[o] EXCEPT !.overlapped = TRUE]
              ELSE handlers[o]]
    /\ UNCHANGED <<monitor, monitor_threads, processes, delivered>>
    /\ UNCHANGED <<vaultVars, raceVars, dedupVars, snapVars, collVars, workerVars>>

\* Lines 192-194: the test of the table; a repeat is counted and the call returns.
HandlerTest(h) ==
    LET me == handlers[h]
        repeat == IsRepeat(recent_commands, CmdKey(me.name, me.command), me.now)
    IN  /\ me.pc = "test"
        /\ handlers' = [handlers EXCEPT ![h].pc = IF repeat THEN "returned" ELSE "store"]
        /\ detections' = IF repeat THEN detections + 1 ELSE detections
        /\ UNCHANGED <<recent_commands, clock, incident_queue, prevEvent, lastEvent>>
        /\ UNCHANGED <<monitor, monitor_threads, processes, delivered>>
        /\ UNCHANGED <<vaultVars, raceVars, snapVars, collVars, workerVars>>

\* Lines 196-205: the key is stored, the keywords are matched, an event that
\* matches nothing returns, any other is counted.
HandlerStore(h) ==
    LET me == handlers[h]
        flagged == MatchedKeywords(me.command) # {} \/ IsForensicTool(me.name)
    IN  /\ me.pc = "store"
        /\ recent_commands' = (CmdKey(me.name, me.command) :> me.now) @@ recent_commands
        /\ handlers' = [handlers EXCEPT ![h].pc = IF flagged THEN "analyze" ELSE "returned"]
        /\ detections' = IF flagged THEN detections + 1 ELSE detections
        /\ UNCHANGED <<clock, incident_queue, prevEvent, lastEvent>>
        /\ UNCHANGED <<monitor, monitor_threads, processes, delivered>>
        /\ UNCHANGED <<vaultVars, raceVars, snapVars, collVars, workerVars>>

\* Lines 217-240: the analysis answers or raises and the item is put.
HandlerPut(h, verdict) ==
    LET me == handlers[h]
    IN  /\ me.pc = "analyze"
        /\ incident_queue' = incident_queue \o Enqueued(me.name, me.command, verdict)
        /\ handlers' = [handlers EXCEPT ![h].pc = "returned"]
        /\ UNCHANGED <<recent_commands, clock, detections, prevEvent, lastEvent>>
        /\ UNCHANGED <<monitor, monitor_threads, processes, delivered>>
        /\ UNCHANGED <<vaultVars, raceVars, snapVars, collVars, workerVars>>

NextHandlerRace ==
    \/ \E h \in HandlerThreads, n \in ProcessNames, c \in Commands : HandlerEnter(h, n, c)
    \/ \E h \in HandlerThreads : HandlerTest(h)
    \/ \E h \in HandlerThreads : HandlerStore(h)
    \/ \E h \in HandlerThreads, v \in AiVerdicts : HandlerPut(h, v)

SpecHandlerRace == Init /\ [][NextHandlerRace]_vars

\* C28: when both workers have run on_suspicious_command at the same time for the
\* same process name and command text, one item and no more is on the queue.
C28_ConcurrentDuplicateAbsorbed ==
    LET a == handlers["WMI"]
        b == handlers["Polling"]
    IN  (/\ a.pc = "returned" /\ b.pc = "returned"
         /\ a.overlapped /\ b.overlapped
         /\ a.name = b.name /\ a.command = b.command
         /\ Flagged(a))
        => Len(incident_queue) = 1

----------------------------------------------------------------------------
(* The polling workers with several processes new in one cycle. *)

MaxCyclePids == 2

CyclePids == 1..MaxCyclePids

\* A monitor that polls only: UnixProcessMonitor, or WindowsProcessMonitor
\* where wmi could not be imported.
InitCycle ==
    /\ InitMonitors
    /\ ~monitor.HAS_WMI
    /\ monitor.HAS_PSUTIL

\* The monitor is started and runs; nobody stops it.
NextCycle ==
    \/ StartMonitoring
    \/ \E pid \in CyclePids, proc \in ProcessKinds : Spawn(pid, proc)
    \/ \E pid \in CyclePids : Exit(pid)
    \/ \E i \in MonitorThreads : PollingStart(i)
    \/ \E i \in MonitorThreads, denied \in SUBSET CyclePids, failed \in SUBSET CyclePids,
          raising \in SUBSET CyclePids :
           PollingCycle(i, denied, failed, raising)

SpecCycle == InitCycle /\ [][NextCycle]_vars

\* C31: the processes a worker dispatches in one step reach the handler in the
\* order in which the operating system created them.
C31_DispatchedInCreationOrder ==
    \A d1 \in delivered, d2 \in delivered :
        d1.nth < d2.nth => d1.born < d2.born

\* C32: every turn of a worker adds to processes_detected the number of process
\* creations the turn observed and to suspicious_detected the number of calls of
\* the handler it made, so that suspicious_detected never exceeds
\* processes_detected.
C32_StatisticsCountEvents ==
    /\ [][\A i \in DOMAIN monitor_threads :
             LET before == monitor_threads[i]
                 after == monitor_threads'[i]
                 event_turn == /\ before.kind = "wmi"
                               /\ before.pc = "loop" /\ after.pc = "loop"
                               /\ before.events # <<>>
                               /\ after.events = Tail(before.events)
                 polling_turn == before.kind = "polling" /\ after.tick # before.tick
                 observed == IF event_turn THEN 1 ELSE Cardinality(after.inspected)
             IN  (event_turn \/ polling_turn)
                 => /\ monitor'.processes_detected = monitor.processes_detected + observed
                    /\ monitor'.suspicious_detected =
                           monitor.suspicious_detected + Cardinality(delivered')]_vars
    /\ [](monitor.suspicious_detected <= monitor.processes_detected)

\* C34: when the callback raises during a turn of a worker, the events of the turn
\* are all counted as flagged and appended to the command history, the worker
\* stays in its loop and the monitoring flag is as it was.
C34_CallbackFailureIsContained ==
    [][\A i \in DOMAIN monitor_threads :
          (/\ monitor_threads[i].pc = "loop"
           /\ \E d \in delivered' : d.thread = i /\ d.raised
           /\ monitor_threads'[i] # monitor_threads[i]
           /\ processes' = processes)
          => /\ monitor_threads'[i].pc = "loop"
             /\ monitor'.monitoring = monitor.monitoring
             /\ monitor'.suspicious_detected =
                    monitor.suspicious_detected + Cardinality(delivered')
             /\ monitor'.command_history =
                    Appended(monitor.command_history, Cardinality(delivered'))]_vars

C34_Witness ==
    \E d \in delivered :
        /\ ~d.raised
        /\ monitor_threads[d.thread].caught
        /\ monitor_threads[d.thread].pc = "loop"
        /\ monitor.command_history >= 2

\* C35: whatever calls of start_monitoring and stop_monitoring were made, at most
\* one polling worker and at most one event worker of the monitor are in their
\* loops.
C35_OneWorkerOfAKind ==
    \A kind \in {"polling", "wmi"} :
        Cardinality({i \in DOMAIN monitor_threads :
                        /\ monitor_threads[i].kind = kind
                        /\ monitor_threads[i].pc = "loop"}) <= 1

\* C36: an id that is new in a polling cycle and was not inspected in it, because
\* the cycle ended early on an exception at another id, is not in the baseline the
\* cycle leaves: a later cycle takes it for new again.
C36_UninspectedIdsStayNew ==
    [][\A i \in DOMAIN monitor_threads :
          (/\ monitor_threads[i].kind = "polling"
           /\ monitor_threads'[i].tick # monitor_threads[i].tick)
          => (NewPids(monitor_threads[i]) \ monitor_threads'[i].inspected)
                 \cap monitor_threads'[i].seen = {}]_vars

\* C38: no two items the consumer has logged carry the same incident id, so that
\* each has an incident directory and an incident.json of its own.
C38_IncidentIdsDistinct ==
    \A i \in DOMAIN threat_log, j \in DOMAIN threat_log :
        i # j => /\ threat_log[i].incident_id # threat_log[j].incident_id
                 /\ IncidentFile(threat_log[i].incident_id)
                        # IncidentFile(threat_log[j].incident_id)

----------------------------------------------------------------------------
(* should_capture called again and again on one collector *)

\* The caller comes back with another command; the decoder answers for it.
AskAgain ==
    /\ lastMatch.valid
    /\ \E c \in MatcherCommands(BuildThreatPatterns(os_type)) :
           \E d \in DecodeIfEncoded(BuildThreatPatterns(os_type), c) :
               lastMatch' = [valid |-> FALSE, command |-> c,
                             decoded |-> d[1], techniques |-> d[2]]
    /\ UNCHANGED <<enabled, threat_patterns, snapshots_taken, capture>>
    /\ UNCHANGED <<vaultVars, raceVars, monVars, dedupVars, snapVars, workerVars>>

NextCalls ==
    \/ ShouldCapture
    \/ AskAgain

SpecCalls == InitMatcher /\ [][NextCalls]_vars

\* C40: should_capture leaves the collector's pattern table as it was built, entry
\* by entry, whatever it is asked and however often, and so each call answers as a
\* call on the freshly built table would.
C40_TableIsNeverWritten ==
    /\ threat_patterns = BuildThreatPatterns(os_type)
    /\ lastMatch.valid =>
         lastMatch.result = ShouldCaptureResult(lastMatch.enabled,
                                BuildThreatPatterns(os_type), lastMatch.command,
                                lastMatch.decoded, lastMatch.techniques)

\* An obfuscated command has been answered with a raised severity while the entry
\* it matched keeps its own.
C40_Witness ==
    /\ lastMatch.valid
    /\ lastMatch.techniques # {}
    /\ lastMatch.result.matched
    /\ \E i \in 1..Len(threat_patterns) :
          /\ i = FirstMatch(threat_patterns,
                     <<LowerStr(lastMatch.command), LowerStr(lastMatch.decoded)>>)
          /\ threat_patterns[i].severity # "CRITICAL"
          /\ lastMatch.result.severity = SeverityUpgrade(threat_patterns[i].severity)
          /\ lastMatch.result.description # threat_patterns[i].description

----------------------------------------------------------------------------
(* The deduplication key on names and commands that hold the separator *)

\* Process names as psutil and WMI report them; a name may hold a colon.
KeyNames == {<<"cmd.exe">>, <<"cmd.exe", ":", "x">>}

\* Command texts; a command may hold a colon.
KeyCommands == {<<"wevtutil", "cl">>, <<"x", ":", "wevtutil", "cl">>}

NextKeys ==
    \/ \E n \in KeyNames, c \in KeyCommands, v \in AiVerdicts :
           OnSuspiciousCommand(n, c, v)
    \/ \E d \in ClockSteps : Advance(d)

SpecKeys == Init /\ [][NextKeys]_vars

\* C33: an event suppressed on the key that the event before it stored has that
\* event's process name and that event's command text; events whose (name,
\* command) pairs differ are not repeats of each other.
C33_RepeatsShareThePair ==
    (/\ lastEvent.valid /\ prevEvent.valid
     /\ lastEvent.repeat /\ ~prevEvent.repeat
     /\ CmdKey(lastEvent.name, lastEvent.command)
            = CmdKey(prevEvent.name, prevEvent.command))
    => /\ lastEvent.name = prevEvent.name
       /\ lastEvent.command = prevEvent.command

----------------------------------------------------------------------------
(* Shutdown while callbacks are running.  stop_monitoring only clears the    *)
(* flag: a monitor worker that is inside on_suspicious_command goes on to    *)
(* its analysis and its put, and the main thread does not wait for it        *)
(* before it puts the shutdown signal.                                       *)

\* A command of no threat pattern, so that the consumer takes no snapshot for it.
ListingCommand == <<"v", "s", "s", "a", "d", "m", "i", "n", " ", "l", "i", "s", "t">>

NextShutdownRace ==
    \/ \E h \in HandlerThreads, n \in ProcessNames :
           ~ShuttingDown /\ host = "running" /\ HandlerEnter(h, n, ListingCommand)
    \/ \E h \in HandlerThreads : Alive /\ HandlerTest(h)
    \/ \E h \in HandlerThreads : Alive /\ HandlerStore(h)
    \/ \E h \in HandlerThreads, v \in AiVerdicts : Alive /\ HandlerPut(h, v)
    \/ Shutdown(TRUE)
    \/ HostExits
    \/ Dequeue
    \/ \E raises \in BOOLEAN : SnapshotStep(raises)
    \/ \E o \in ReportOutcomes : ReportStep(o)
    \/ \E raises \in BOOLEAN : SiemStep(raises)
    \/ \E raises \in BOOLEAN : AlertStep(raises)
    \/ \E raises \in BOOLEAN : SaveJson(raises)

SpecShutdownRace == Init /\ [][NextShutdownRace]_vars

\* C37: no incident item stands behind the shutdown signal on the queue, and none
\* is on the queue once the consumer has taken the signal and stopped.
C37_NothingBehindTheSentinel ==
    /\ \A i \in DOMAIN incident_queue :
           incident_queue[i] = Sentinel => i = Len(incident_queue)
    /\ worker.pc = "stopped" => incident_queue = <<>>

----------------------------------------------------------------------------
(* _add_custody_entry failing part-way, one caller at a time *)

\* No other caller is constructing a vault or inside a vault call.
Quiet(w) ==
    \A o \in Writers \ {w} : writers[o].pc \notin {"init", "read", "append", "dump"}

\* The ledger entries recorded before the call of a caller that stands at pc.
RecordedBefore(writer, f) ==
    CASE writer.pc = "read"   -> f.entries
      [] writer.pc = "append" -> writer.custody
      [] writer.pc = "dump"   -> SubSeq(writer.custody, 1, Len(writer.custody) - 1)

\* _add_custody_entry raises where the caller stands: at the open or the load of
\* lines 237-238, at the open of line 242 before the file is emptied, or in the
\* dump of line 243 after it.  Nothing in lines 235-243 restores the file, and
\* the callers do not either.
FailAppend(w) ==
    /\ writers[w].pc \in {"read", "append", "dump"}
    /\ writers' = [writers EXCEPT ![w] =
           [pc        |-> OnLedgerError(writers[w].op),
            op        |-> writers[w].op,
            entry     |-> writers[w].entry,
            custody   |-> writers[w].custody,
            failed_at |-> writers[w].pc,
            before    |-> RecordedBefore(writers[w], chain_of_custody_file)]]
    /\ UNCHANGED <<vaultVars, dedupVars, snapVars, collVars, workerVars, monVars>>

NextLedgerFaults ==
    \/ \E w \in Writers : Quiet(w) /\ Construct(w)
    \/ \E w \in Writers : InitWrite(w)
    \/ \E w \in Writers, op \in RaceOps, c \in Contents : Quiet(w) /\ Begin(w, op, c)
    \/ \E w \in Writers : ReadLedger(w)
    \/ \E w \in Writers : TruncateLedger(w)
    \/ \E w \in Writers : DumpLedger(w)
    \/ \E w \in Writers : FailAppend(w)
    \/ Tick

SpecLedgerFaults == Init /\ [][NextLedgerFaults]_vars

\* C39: after an append that failed part-way, the ledger file is still a JSON list
\* that begins with every entry recorded before that append, unchanged.
C39_FailedAppendKeepsEntries ==
    \A w \in Writers :
        "before" \in DOMAIN writers[w] =>
            /\ chain_of_custody_file.state = "json"
            /\ Len(chain_of_custody_file.entries) >= Len(writers[w].before)
            /\ SubSeq(chain_of_custody_file.entries, 1, Len(writers[w].before))
                   = writers[w].before

====
